---- MODULE Spec2Model ----
(***************************************************************************)
(* E-commerce analytics: the loader/preparer (data_loader.py) and the      *)
(* metrics engine (business_metrics.py), modelled over small in-memory     *)
(* tables.                                                                 *)
(*                                                                         *)
(* A table (pandas DataFrame) is a record [cols, rows]: cols is the set of *)
(* column names, rows the sequence of rows, each row a function from cols  *)
(* to cells.  A cell is NULL (NaN / None / NaT) or the one-element tuple   *)
(* <<v>> holding the value v.  Timestamps are day numbers.                 *)
(***************************************************************************)
EXTENDS Integers, Sequences, FiniteSets, TLC

VARIABLES
    datasets,       \* the dictionary of tables the loader works on
    sales_df,       \* the sales table: the loader's product, the metrics' input
    prev_df,        \* the sales table that was passed to the last loader call
    comparison_df,  \* the previous-period sales table of a growth computation
    last_call,      \* name of the function called last ("none" at the start)
    calls,          \* number of enrichment calls made on sales_df
    raised,         \* exception the last call raised ("none" when it returned)
    metrics,        \* dictionary returned by the last metrics call
    summary,        \* dictionary returned by generate_metrics_summary
    warned,         \* number of warnings.warn calls of the last call
    args            \* the keyword arguments the metrics call is made with

vars == <<datasets, sales_df, prev_df, comparison_df, last_call, calls,
          raised, metrics, summary, warned, args>>

----------------------------------------------------------------------------
(* Cells and tables *)

NULL == <<>>

Val(v) == <<v>>

isna(cell) == cell = NULL

Table(cs, rs) == [cols |-> cs, rows |-> rs]

\* pd.DataFrame(): no columns, no rows
EmptyFrame == Table({}, <<>>)

len(df) == Len(df.rows)

\* df[cs] for a list of columns cs that are all present
SelectCols(df, cs) ==
    Table(cs, [i \in 1..Len(df.rows) |-> [c \in cs |-> df.rows[i][c]]])

\* df[mask]: the rows that satisfy Keep, in order
FilterRows(df, Keep(_)) == Table(df.cols, SelectSeq(df.rows, Keep))

\* df[c] = value computed row by row (adds or overwrites column c)
WithColumn(df, c, F(_)) ==
    Table(df.cols \cup {c},
          [i \in 1..Len(df.rows) |->
              [k \in df.cols \cup {c} |->
                  IF k = c THEN F(df.rows[i]) ELSE df.rows[i][k]]])

\* df.dropna(subset=cs)
dropna(df, cs) == FilterRows(df, LAMBDA r : \A c \in cs : ~isna(r[c]))

\* the values of column c, in row order
Column(df, c) == [i \in 1..Len(df.rows) |-> df.rows[i][c]]

\* set(df[c].unique()), nulls included
UniqueCells(df, c) == {df.rows[i][c] : i \in 1..Len(df.rows)}

\* df[c].nunique(): nulls are not counted
nunique(df, c) == Cardinality(UniqueCells(df, c) \ {NULL})

\* df[c].duplicated().sum(): rows whose value occurred in an earlier row
duplicated_sum(df, c) ==
    Cardinality({i \in 1..Len(df.rows) :
                    \E j \in 1..(i - 1) : df.rows[j][c] = df.rows[i][c]})

----------------------------------------------------------------------------
(* pandas merge(left, right, on=key, how='left')                           *)

\* a non-key column present on both sides gets the suffixes _x and _y
MergeOverlap(left, right, key) == (left.cols \cap right.cols) \ {key}

MergeCols(left, right, key) ==
    LET ov == MergeOverlap(left, right, key)
    IN  (left.cols \ ov) \cup (right.cols \ ov)
            \cup {c \o "_x" : c \in ov} \cup {c \o "_y" : c \in ov}

\* the output row for left row l joined with right row r; matched = FALSE
\* when no right row has l's key, and the right-hand columns are then null
MergeRow(outcols, ov, lcols, l, r, matched) ==
    [k \in outcols |->
        IF k \in lcols \ ov THEN l[k]
        ELSE IF \E c \in ov : k = c \o "_x"
        THEN l[CHOOSE c \in ov : k = c \o "_x"]
        ELSE IF ~matched THEN NULL
        ELSE IF \E c \in ov : k = c \o "_y"
        THEN r[CHOOSE c \in ov : k = c \o "_y"]
        ELSE r[k]]

\* the rows of right whose key equals the key of left row l, in right's order
\* (pandas matches a null key with a null key)
MatchingRows(right, key, l) ==
    SelectSeq(right.rows, LAMBDA r : r[key] = l[key])

\* how='left': every left row, in order, once per matching right row, or once
\* with null right-hand columns when nothing matches
RECURSIVE LeftJoinRows(_, _, _, _, _, _)
LeftJoinRows(left, right, key, outcols, ov, i) ==
    IF i > Len(left.rows) THEN <<>>
    ELSE LET l == left.rows[i]
             m == MatchingRows(right, key, l)
             out == IF m = <<>>
                    THEN <<MergeRow(outcols, ov, left.cols, l, l, FALSE)>>
                    ELSE [j \in 1..Len(m) |->
                             MergeRow(outcols, ov, left.cols, l, m[j], TRUE)]
         IN  out \o LeftJoinRows(left, right, key, outcols, ov, i + 1)

\* how='inner': a left row without a matching right row is dropped
RECURSIVE InnerJoinRows(_, _, _, _, _, _)
InnerJoinRows(left, right, key, outcols, ov, i) ==
    IF i > Len(left.rows) THEN <<>>
    ELSE LET l == left.rows[i]
             m == MatchingRows(right, key, l)
         IN  [j \in 1..Len(m) |-> MergeRow(outcols, ov, left.cols, l, m[j], TRUE)]
                 \o InnerJoinRows(left, right, key, outcols, ov, i + 1)

merge_inner(left, right, key) ==
    LET outcols == MergeCols(left, right, key)
        ov == MergeOverlap(left, right, key)
    IN  Table(outcols, InnerJoinRows(left, right, key, outcols, ov, 1))

merge_left(left, right, key) ==
    LET outcols == MergeCols(left, right, key)
        ov == MergeOverlap(left, right, key)
    IN  Table(outcols, LeftJoinRows(left, right, key, outcols, ov, 1))

\* a function's outcome: it returned value, or it raised
Returned(v) == [raised |-> "none", value |-> v]

Raised(e) == [raised |-> e, value |-> EmptyFrame]

\* a function that prints a "Warning: ..." line and returns v
Warned(v) == [raised |-> "none", value |-> v, warning |-> TRUE]

----------------------------------------------------------------------------
(* data_loader.py *)

\* the buckets with the thresholds taken exclusive
categorize_delivery_speed_exclusive(days) ==
    IF isna(days) THEN Val("Unknown")
    ELSE IF days[1] < 3 THEN Val("1-3 days")
    ELSE IF days[1] < 7 THEN Val("4-7 days")
    ELSE Val("8+ days")

\* categorize_delivery_speed(days)
categorize_delivery_speed(days) ==
    IF isna(days) THEN Val("Unknown")
    ELSE IF days[1] <= 3 THEN Val("1-3 days")
    ELSE IF days[1] <= 7 THEN Val("4-7 days")
    ELSE Val("8+ days")

\* the keys of the files dictionary of load_datasets, in its order
Sources == <<"orders", "order_items", "products", "customers", "reviews">>

\* pd.read_csv(file_path): a file is a table, or "missing" (no such file),
\* or "unreadable" (it cannot be read or parsed)
read_csv(file) ==
    IF file = [state |-> "missing"] THEN Raised("FileNotFoundError")
    ELSE IF file = [state |-> "unreadable"] THEN Raised("ParserError")
    ELSE Returned(file)

\* the dictionary d with d[key] = value
SetItem(d, key, value) ==
    [k \in DOMAIN d \cup {key} |-> IF k = key THEN value ELSE d[k]]

\* a loading loop that gives up at the first file that fails
RECURSIVE load_from_until_failure(_, _, _)
load_from_until_failure(files, i, loaded) ==
    IF i > Len(Sources) THEN loaded
    ELSE LET read == read_csv(files[Sources[i]])
         IN  IF read.raised = "none"
             THEN load_from_until_failure(files, i + 1,
                      SetItem(loaded, Sources[i], read.value))
             ELSE loaded

\* the loop of load_datasets from the i-th file on (lines 38-57): a file
\* that raises is logged and skipped
RECURSIVE load_from(_, _, _)
load_from(files, i, loaded) ==
    IF i > Len(Sources) THEN loaded
    ELSE LET read == read_csv(files[Sources[i]])
         IN  load_from(files, i + 1,
                 IF read.raised = "none"
                 THEN SetItem(loaded, Sources[i], read.value)
                 ELSE loaded)

\* the dictionary with no key
EmptyDict == [k \in {} |-> EmptyFrame]

load_datasets_until_failure(files) ==
    Returned(load_from_until_failure(files, 1, EmptyDict))

\* load_datasets(data_path), files being the files under data_path
load_datasets(files) == Returned(load_from(files, 1, EmptyDict))

ItemCols == {"order_id", "order_item_id", "product_id", "price", "freight_value"}

OrdersCols == {"order_id", "order_status", "order_purchase_timestamp",
               "order_delivered_customer_date", "purchase_year",
               "purchase_month", "customer_id"}

\* the table after the orders merge of create_sales_dataset (lines 175-197)
orders_merge(ds) ==
    LET sales_data == SelectCols(ds.order_items, ItemCols \cap ds.order_items.cols)
        orders == SelectCols(ds.orders, OrdersCols \cap ds.orders.cols)
    IN  merge_left(sales_data, orders, "order_id")

\* the whole days from purchase to delivery of a merged row (lines 223-225)
delivery_days(r) ==
    IF isna(r["order_delivered_customer_date"])
           \/ isna(r["order_purchase_timestamp"])
    THEN NULL
    ELSE Val(r["order_delivered_customer_date"][1]
                - r["order_purchase_timestamp"][1])

\* delivery metrics that filter the rows with negative delivery days out
delivery_metrics_dropping_negative(sales_data) ==
    IF {"order_delivered_customer_date", "order_purchase_timestamp"}
           \subseteq sales_data.cols
    THEN LET kept == FilterRows(sales_data,
                         LAMBDA r : isna(delivery_days(r)) \/ delivery_days(r)[1] >= 0)
             withDays == WithColumn(kept, "delivery_days", delivery_days)
         IN  WithColumn(withDays, "delivery_speed_category",
                 LAMBDA r : categorize_delivery_speed(r["delivery_days"]))
    ELSE sales_data

\* the delivery metrics of create_sales_dataset (lines 218-243)
delivery_metrics(sales_data) ==
    IF {"order_delivered_customer_date", "order_purchase_timestamp"}
           \subseteq sales_data.cols
    THEN LET withDays == WithColumn(sales_data, "delivery_days", delivery_days)
         IN  WithColumn(withDays, "delivery_speed_category",
                 LAMBDA r : categorize_delivery_speed(r["delivery_days"]))
    ELSE sales_data

\* create_sales_dataset without the order status filter of lines 205-216
create_sales_dataset_unfiltered(ds, order_status_filter) ==
    IF "order_id" \notin ds.order_items.cols \/ "order_id" \notin ds.orders.cols
    THEN Raised("KeyError")
    ELSE Returned(delivery_metrics(orders_merge(ds)))

\* create_sales_dataset(datasets, order_status_filter); the filter "None"
\* stands for order_status_filter=None
create_sales_dataset(ds, order_status_filter) ==
    IF "order_id" \notin ds.order_items.cols \/ "order_id" \notin ds.orders.cols
    THEN Raised("KeyError")
    ELSE LET merged == orders_merge(ds)
             filtered ==
                 IF order_status_filter # "None" /\ "order_status" \in merged.cols
                 THEN FilterRows(merged,
                          LAMBDA r : r["order_status"] = Val(order_status_filter))
                 ELSE merged
         IN  Returned(delivery_metrics(filtered))

ProductCols == {"product_id", "product_category_name"}

\* add_product_categories(sales_df, products_df)
add_product_categories(sales, products_df) ==
    LET available_cols == ProductCols \cap products_df.cols
    IN  IF "product_id" \notin available_cols
        THEN Returned(sales)
        ELSE IF "product_category_name" \notin available_cols
        THEN Returned(WithColumn(sales, "product_category_name",
                                 LAMBDA r : Val("Unknown")))
        ELSE IF "product_id" \notin sales.cols
        THEN Raised("KeyError")
        ELSE LET result_df == merge_left(sales,
                                  SelectCols(products_df, available_cols),
                                  "product_id")
             IN  IF "product_category_name" \notin result_df.cols
                 THEN Raised("KeyError")
                 ELSE Returned(result_df)

GeoCols == {"customer_id", "customer_state", "customer_city",
            "customer_zip_code_prefix"}

\* add_customer_geography(sales_df, orders_df, customers_df)
add_customer_geography(sales, orders_df, customers_df) ==
    IF "customer_id" \notin sales.cols
          /\ (~({"order_id", "customer_id"} \subseteq orders_df.cols)
                 \/ "order_id" \notin sales.cols)
    THEN Raised("KeyError")
    ELSE LET with_customer ==
                 IF "customer_id" \notin sales.cols
                 THEN merge_left(sales,
                          SelectCols(orders_df, {"order_id", "customer_id"}),
                          "order_id")
                 ELSE sales
             available_geo_cols == GeoCols \cap customers_df.cols
         IN  IF "customer_id" \notin customers_df.cols
             THEN Raised("KeyError")
             ELSE Returned(merge_left(with_customer,
                               SelectCols(customers_df, available_geo_cols),
                               "customer_id"))

ReviewCols == {"order_id", "review_score", "review_creation_date"}

\* add_review_data(sales_df, reviews_df)
add_review_data(sales, reviews_df) ==
    LET available_review_cols == ReviewCols \cap reviews_df.cols
    IN  IF "order_id" \notin reviews_df.cols \/ "order_id" \notin sales.cols
        THEN Raised("KeyError")
        ELSE Returned(merge_left(sales,
                          SelectCols(reviews_df, available_review_cols),
                          "order_id"))

----------------------------------------------------------------------------
(* Numbers of the metrics engine.  A numpy float is a record: a finite     *)
(* value is the exact fraction n/d in lowest terms (floating-point         *)
(* rounding is not modelled), k = "nan" is NaN and k = "inf" is n times    *)
(* infinity.  Dividing numpy floats by zero gives inf or NaN with a        *)
(* RuntimeWarning; dividing Python ints by zero raises ZeroDivisionError.  *)

Abs(x) == IF x < 0 THEN -x ELSE x

RECURSIVE Gcd(_, _)
Gcd(a, b) == IF b = 0 THEN a ELSE Gcd(b, a % b)

Fin(n, d) ==
    LET g == Gcd(Abs(n), d)
    IN  [k |-> "fin", n |-> n \div g, d |-> d \div g]

NaN == [k |-> "nan", n |-> 0, d |-> 0]

Inf(sign) == [k |-> "inf", n |-> sign, d |-> 0]

Sign(x) == IF x > 0 THEN 1 ELSE IF x < 0 THEN -1 ELSE 0

\* a - b on numpy floats
np_sub(a, b) ==
    IF a.k = "nan" \/ b.k = "nan" THEN NaN
    ELSE IF a.k = "inf" THEN (IF b.k = "inf" /\ b.n = a.n THEN NaN ELSE a)
    ELSE IF b.k = "inf" THEN Inf(-b.n)
    ELSE Fin(a.n * b.d - b.n * a.d, a.d * b.d)

\* a / b on numpy floats
np_div(a, b) ==
    IF a.k = "nan" \/ b.k = "nan" THEN NaN
    ELSE IF b.k = "inf" THEN (IF a.k = "inf" THEN NaN ELSE Fin(0, 1))
    ELSE IF b.n = 0 THEN (IF a.n = 0 THEN NaN ELSE Inf(Sign(a.n)))
    ELSE IF a.k = "inf" THEN Inf(a.n * Sign(b.n))
    ELSE Fin(a.n * b.d * Sign(b.n), a.d * Abs(b.n))

\* a * m for a Python int m > 0
np_scale(a, m) == IF a.k = "fin" THEN Fin(a.n * m, a.d) ELSE a

\* a <= b on numpy floats (any comparison with NaN is false)
np_le(a, b) ==
    IF a.k = "nan" \/ b.k = "nan" THEN FALSE
    ELSE IF a.k = "inf" THEN a.n < 0 \/ (b.k = "inf" /\ b.n > 0)
    ELSE IF b.k = "inf" THEN b.n > 0
    ELSE a.n * b.d <= b.n * a.d

\* the members of a set of numbers in ascending order
RECURSIVE Ascending(_)
Ascending(S) ==
    IF S = {} THEN <<>>
    ELSE LET m == CHOOSE x \in S : \A y \in S : x <= y
         IN  <<m>> \o Ascending(S \ {m})

RECURSIVE SumSeq(_)
SumSeq(xs) == IF xs = <<>> THEN 0 ELSE Head(xs) + SumSeq(Tail(xs))

\* the values of a sequence in ascending order
RECURSIVE Sorted(_)
Sorted(xs) ==
    IF xs = <<>> THEN <<>>
    ELSE LET m == CHOOSE i \in 1..Len(xs) : \A j \in 1..Len(xs) : xs[i] <= xs[j]
         IN  <<xs[m]>> \o Sorted([j \in 1..(Len(xs) - 1) |->
                                     IF j < m THEN xs[j] ELSE xs[j + 1]])

\* Series.mean(): NaN for an empty series
mean(xs) == IF xs = <<>> THEN NaN ELSE Fin(SumSeq(xs), Len(xs))

\* Series.median(): the middle value, or the mean of the two middle values
median(xs) ==
    LET a == Sorted(xs)
        n == Len(xs)
    IN  IF n = 0 THEN NaN
        ELSE IF n % 2 = 1 THEN Fin(a[(n + 1) \div 2], 1)
        ELSE Fin(a[n \div 2] + a[n \div 2 + 1], 2)

\* Series.quantile(q100 / 100): linear interpolation between the two order
\* statistics around position (n - 1) * q
quantile(xs, q100) ==
    LET a == Sorted(xs)
        n == Len(xs)
        h == (n - 1) * q100
        lo == h \div 100 + 1
        frac == h % 100
    IN  IF n = 0 THEN NaN
        ELSE IF frac = 0 THEN Fin(a[lo], 1)
        ELSE Fin(100 * a[lo] + (a[lo + 1] - a[lo]) * frac, 100)

\* the non-null values of column c, in row order
Values(df, c) ==
    LET present == SelectSeq(df.rows, LAMBDA r : ~isna(r[c]))
    IN  [i \in 1..Len(present) |-> present[i][c][1]]

----------------------------------------------------------------------------
(* business_metrics.py *)

\* sales_df.groupby('order_id')[price_column].sum(): one sum per non-null
\* order id, in ascending key order (the sum of no values is 0)
order_values_items(sales, price_column) == Values(sales, price_column)

order_values(sales, price_column) ==
    LET ids == Ascending({c[1] : c \in UniqueCells(sales, "order_id") \ {NULL}})
    IN  [i \in 1..Len(ids) |->
            SumSeq(Values(FilterRows(sales, LAMBDA r : r["order_id"] = Val(ids[i])),
                          price_column))]

\* sales_df.groupby('order_id').size()
items_per_order(sales) ==
    LET ids == Ascending({c[1] : c \in UniqueCells(sales, "order_id") \ {NULL}})
    IN  [i \in 1..Len(ids) |->
            len(FilterRows(sales, LAMBDA r : r["order_id"] = Val(ids[i])))]

revenue_percentiles_swapped(sales, price_column) ==
    [p25 |-> quantile(Values(sales, price_column), 25),
     p75 |-> quantile(Values(sales, price_column), 75),
     p90 |-> quantile(Values(sales, price_column), 95),
     p95 |-> quantile(Values(sales, price_column), 90)]

\* metrics['revenue_percentiles'] (the keys '25th' ... '95th')
revenue_percentiles(sales, price_column) ==
    [p25 |-> quantile(Values(sales, price_column), 25),
     p75 |-> quantile(Values(sales, price_column), 75),
     p90 |-> quantile(Values(sales, price_column), 90),
     p95 |-> quantile(Values(sales, price_column), 95)]

\* calculate_revenue_metrics(sales_df, price_column=price_column)
calculate_revenue_metrics(sales, price_column) ==
    IF price_column \notin sales.cols \/ "order_id" \notin sales.cols
    THEN Raised("KeyError")
    ELSE Returned(
        [total_revenue |-> Fin(SumSeq(Values(sales, price_column)), 1),
         total_orders |-> nunique(sales, "order_id"),
         total_items |-> len(sales),
         avg_item_price |-> mean(Values(sales, price_column)),
         median_item_price |-> median(Values(sales, price_column)),
         avg_order_value |-> mean(order_values(sales, price_column)),
         median_order_value |-> median(order_values(sales, price_column)),
         avg_items_per_order |-> mean(items_per_order(sales)),
         revenue_percentiles |-> revenue_percentiles(sales, price_column)])

\* (current - previous) / previous * 100 on numpy floats
growth_pct_of_current(current, previous) ==
    np_scale(np_div(np_sub(current, previous), current), 100)

growth_pct(current, previous) ==
    np_scale(np_div(np_sub(current, previous), previous), 100)

\* calculate_growth_metrics(current_df, previous_df, price_column)
calculate_growth_metrics(current_df, previous_df, price_column) ==
    LET cur == calculate_revenue_metrics(current_df, price_column)
        prev == calculate_revenue_metrics(previous_df, price_column)
    IN  IF cur.raised # "none" THEN cur
        ELSE IF prev.raised # "none" THEN prev
        ELSE LET current_metrics == cur.value
                 previous_metrics == prev.value
             IN  \* total_orders are Python ints: the division by 0 raises
                 IF previous_metrics.total_orders = 0
                 THEN Raised("ZeroDivisionError")
                 ELSE Returned(
                     [revenue_growth_pct |->
                          growth_pct(current_metrics.total_revenue,
                                     previous_metrics.total_revenue),
                      order_growth_pct |->
                          Fin(100 * (current_metrics.total_orders
                                        - previous_metrics.total_orders),
                              previous_metrics.total_orders),
                      aov_growth_pct |->
                          growth_pct(current_metrics.avg_order_value,
                                     previous_metrics.avg_order_value),
                      items_per_order_growth_pct |->
                          growth_pct(current_metrics.avg_items_per_order,
                                     previous_metrics.avg_items_per_order),
                      revenue_change_absolute |->
                          np_sub(current_metrics.total_revenue,
                                 previous_metrics.total_revenue),
                      order_change_absolute |->
                          current_metrics.total_orders
                              - previous_metrics.total_orders])

\* Series.dt.year and Series.dt.month of a day number: day 0 is 1 January
\* 2023, and the calendar is simplified to twelve months of 30 days
dt_year(day) == 2023 + day \div 360

dt_month(day) == (day % 360) \div 30 + 1

\* df[df[date_column].dt.year >= bound] and the like (data_loader.py): a
\* bound is a cell, NULL standing for None; a null date compares False
year_from(df, date_column, bound) ==
    IF isna(bound) THEN df
    ELSE FilterRows(df, LAMBDA r : ~isna(r[date_column])
                                      /\ dt_year(r[date_column][1]) >= bound[1])

year_until(df, date_column, bound) ==
    IF isna(bound) THEN df
    ELSE FilterRows(df, LAMBDA r : ~isna(r[date_column])
                                      /\ dt_year(r[date_column][1]) <= bound[1])

month_from(df, date_column, bound) ==
    IF isna(bound) THEN df
    ELSE FilterRows(df, LAMBDA r : ~isna(r[date_column])
                                      /\ dt_month(r[date_column][1]) >= bound[1])

month_until(df, date_column, bound) ==
    IF isna(bound) THEN df
    ELSE FilterRows(df, LAMBDA r : ~isna(r[date_column])
                                      /\ dt_month(r[date_column][1]) <= bound[1])

\* the month bounds applied only in the first and the last year of the range
filter_data_by_date_range_spanning(df, start_year, end_year, start_month, end_month, date_column) ==
    IF date_column \notin df.cols THEN Returned(df)
    ELSE IF len(df) = 0 THEN Raised("ZeroDivisionError")
    ELSE LET years == year_until(year_from(df, date_column, start_year),
                                 date_column, end_year)
         IN  Returned(FilterRows(years,
                 LAMBDA r :
                     /\ (isna(start_month) \/ isna(start_year)
                            \/ dt_year(r[date_column][1]) > start_year[1]
                            \/ dt_month(r[date_column][1]) >= start_month[1])
                     /\ (isna(end_month) \/ isna(end_year)
                            \/ dt_year(r[date_column][1]) < end_year[1]
                            \/ dt_month(r[date_column][1]) <= end_month[1])))

\* filter_data_by_date_range(df, start_year, end_year, start_month,
\* end_month, date_column) of data_loader.py; the final log line divides
\* by the number of rows of df
filter_data_by_date_range(df, start_year, end_year, start_month, end_month, date_column) ==
    IF date_column \notin df.cols THEN Returned(df)
    ELSE LET filtered_df ==
                 month_until(
                     month_from(
                         year_until(year_from(df, date_column, start_year),
                                    date_column, end_year),
                         date_column, start_month),
                     date_column, end_month)
             initial_count == len(df)
         IN  IF initial_count = 0 THEN Raised("ZeroDivisionError")
             ELSE Returned(filtered_df)

\* round(2): to two decimals, a tie going to the even neighbour
round2(x) ==
    IF x.k # "fin" THEN x
    ELSE LET q == (100 * x.n) \div x.d
             r == (100 * x.n) % x.d
         IN  IF 2 * r < x.d THEN Fin(q, 100)
             ELSE IF 2 * r > x.d THEN Fin(q + 1, 100)
             ELSE IF q % 2 = 0 THEN Fin(q, 100)
             ELSE Fin(q + 1, 100)

\* a whole number as a numpy float
AsFloat(i) == Fin(i, 1)

\* Series.pct_change() of a sequence of floats, the change taken against the
\* later value instead of the earlier one
pct_change_of_current(xs) ==
    [i \in 1..Len(xs) |->
        IF i = 1 THEN NaN ELSE np_sub(AsFloat(1), np_div(xs[i - 1], xs[i]))]

\* Series.pct_change() of a sequence of floats: x[i] / x[i-1] - 1, the first
\* entry NaN
pct_change(xs) ==
    [i \in 1..Len(xs) |->
        IF i = 1 THEN NaN ELSE np_sub(np_div(xs[i], xs[i - 1]), AsFloat(1))]

\* the (year, month) group keys of the dated rows, ascending, each key
\* written as 100 * year + month
MonthKey(cell) == 100 * dt_year(cell[1]) + dt_month(cell[1])

MonthKeys(df, date_column) ==
    Ascending({MonthKey(df.rows[i][date_column]) :
                  i \in {j \in 1..Len(df.rows) : ~isna(df.rows[j][date_column])}})

\* calculate_monthly_trends(sales_df, date_column, price_column, year_filter);
\* year_filter 0 stands for None (both are falsy)
calculate_monthly_trends(sales, date_column, price_column, year_filter) ==
    IF ~({date_column, price_column, "order_id"} \subseteq sales.cols)
    THEN Raised("KeyError")
    ELSE LET df == IF year_filter # 0
                   THEN FilterRows(sales,
                            LAMBDA r : ~isna(r[date_column])
                                       /\ dt_year(r[date_column][1]) = year_filter)
                   ELSE sales
             keys == MonthKeys(df, date_column)
             group(k) == FilterRows(df, LAMBDA r : ~isna(r[date_column])
                                                  /\ MonthKey(r[date_column]) = k)
             total_revenue ==
                 [i \in 1..Len(keys) |->
                     round2(AsFloat(SumSeq(Values(group(keys[i]), price_column))))]
             total_orders ==
                 [i \in 1..Len(keys) |-> nunique(group(keys[i]), "order_id")]
             avg_order_value ==
                 [i \in 1..Len(keys) |->
                     round2(np_div(total_revenue[i], AsFloat(total_orders[i])))]
             growth(xs) == LET g == pct_change(xs)
                           IN  [i \in 1..Len(xs) |-> round2(np_scale(g[i], 100))]
         IN  Returned(
                 [i \in 1..Len(keys) |->
                     [year |-> keys[i] \div 100,
                      month |-> keys[i] % 100,
                      total_revenue |-> total_revenue[i],
                      avg_item_price |->
                          round2(mean(Values(group(keys[i]), price_column))),
                      total_items |-> Len(Values(group(keys[i]), price_column)),
                      total_orders |-> total_orders[i],
                      avg_order_value |-> avg_order_value[i],
                      revenue_mom_growth |-> growth(total_revenue)[i],
                      orders_mom_growth |->
                          growth([j \in 1..Len(keys) |-> AsFloat(total_orders[j])])[i],
                      aov_mom_growth |-> growth(avg_order_value)[i]]])

\* Series.dt.to_period('M') of a day number, as the number of the month
\* counted from year 0
to_period(day) == 12 * dt_year(day) + dt_month(day) - 1

\* the latest of a customer's purchase dates
last_purchase(dates) == Sorted(dates)[Len(dates)]

\* groupby(customer_column)[date_column].min(): the customer's first purchase
first_purchase(dates) == Sorted(dates)[1]

\* cohort_sizes with the rows of a cohort counted instead of its customers
cohort_sizes_rows(df, customer_column, cohort) ==
    Cardinality({i \in 1..len(df) : df.rows[i].cohort_month = Val(cohort)})

\* cohort_sizes: df.groupby('cohort_month')[customer_column].nunique()
cohort_sizes(df, customer_column, cohort) ==
    Cardinality({df.rows[i][customer_column] :
                    i \in {j \in 1..len(df) : df.rows[j].cohort_month = Val(cohort)}}
                \ {NULL})

\* calculate_cohort_metrics(sales_df, date_column, customer_column): the
\* retention table, its rows the cohort months and its columns the period
\* numbers, a cell NaN when no customer of the cohort bought in the period.
\* A row without a date has no period number: attrgetter('n') raises on it.
calculate_cohort_metrics(sales, date_column, customer_column) ==
    IF ~({date_column, customer_column} \subseteq sales.cols)
    THEN Raised("KeyError")
    ELSE LET known == dropna(sales, {customer_column})
             first(c) == Values(FilterRows(known, LAMBDA r : r[customer_column] = c),
                                date_column)
             df == [cols |-> known.cols \cup {"year_month", "cohort_month"},
                    rows |-> [i \in 1..len(known) |->
                        [year_month |->
                             IF isna(known.rows[i][date_column]) THEN NULL
                             ELSE Val(to_period(known.rows[i][date_column][1])),
                         cohort_month |->
                             IF first(known.rows[i][customer_column]) = <<>> THEN NULL
                             ELSE Val(to_period(first_purchase(
                                      first(known.rows[i][customer_column])))),
                         customer_id |-> known.rows[i][customer_column]]]]
         IN  IF \E i \in 1..len(df) : isna(df.rows[i].year_month)
             THEN Raised("AttributeError")
             ELSE LET period_number(i) ==
                          df.rows[i].year_month[1] - df.rows[i].cohort_month[1]
                      index == Ascending({df.rows[i].cohort_month[1] :
                                             i \in 1..len(df)})
                      columns == Ascending({period_number(i) : i \in 1..len(df)})
                      active(cohort, period) ==
                          Cardinality({df.rows[i].customer_id :
                              i \in {j \in 1..len(df) :
                                        /\ df.rows[j].cohort_month = Val(cohort)
                                        /\ period_number(j) = period}})
                  IN  Returned(
                          [index |-> index,
                           columns |-> columns,
                           values |->
                               [i \in 1..Len(index) |->
                                   [j \in 1..Len(columns) |->
                                       IF active(index[i], columns[j]) = 0 THEN NaN
                                       ELSE Fin(active(index[i], columns[j]),
                                                cohort_sizes(df, "customer_id",
                                                             index[i]))]]])

\* what a metric function returns, as far as the summary is concerned: an
\* empty DataFrame (nothing to report), a metrics table or a metrics dictionary
EmptyResult == <<>>

\* the strings of the tables in the order Python compares them
Alphabetical ==
    <<"Campinas", "MG", "RJ", "Rio", "SP", "Santos", "Unknown", "books",
      "games", "toys">>

\* the sort key of value v of column c: zip prefixes are numbers, the other
\* group columns hold strings
SortRank(c, v) ==
    IF c = "customer_zip_code_prefix" THEN v
    ELSE CHOOSE i \in 1..Len(Alphabetical) : Alphabetical[i] = v

\* the group key of a row: its values in the group columns, in their order
KeyOf(r, group_col) == [j \in 1..Len(group_col) |-> r[group_col[j]][1]]

\* key a sorts before key b
KeyBefore(group_col, a, b) ==
    \E j \in 1..Len(group_col) :
        /\ SortRank(group_col[j], a[j]) < SortRank(group_col[j], b[j])
        /\ \A i \in 1..(j - 1) : a[i] = b[i]

RECURSIVE SortKeys(_, _)
SortKeys(group_col, keys) ==
    IF keys = {} THEN <<>>
    ELSE LET first == CHOOSE a \in keys :
                          \A b \in keys \ {a} : KeyBefore(group_col, a, b)
         IN  <<first>> \o SortKeys(group_col, keys \ {first})

\* df.groupby(group_col) with the rows that have a null in a group column
\* kept, the null standing as the key value "Unknown"
groupby_keeping_nulls(df, group_col) ==
    LET key(r) == [j \in 1..Len(group_col) |->
                      IF isna(r[group_col[j]]) THEN "Unknown"
                      ELSE r[group_col[j]][1]]
        keys == SortKeys(group_col, {key(df.rows[i]) : i \in 1..len(df)})
    IN  [i \in 1..Len(keys) |->
            [key |-> keys[i],
             rows |-> FilterRows(df, LAMBDA r : key(r) = keys[i])]]

\* df.groupby(group_col): the groups in ascending key order, each with the
\* rows it holds; a row with a null in a group column is in no group
groupby(df, group_col) ==
    LET keyed == FilterRows(df, LAMBDA r : \A j \in 1..Len(group_col) :
                                              ~isna(r[group_col[j]]))
        keys == SortKeys(group_col,
                         {KeyOf(keyed.rows[i], group_col) : i \in 1..len(keyed)})
    IN  [i \in 1..Len(keys) |->
            [key |-> keys[i],
             rows |-> FilterRows(keyed,
                                 LAMBDA r : KeyOf(r, group_col) = keys[i])]]

\* a + b on numpy floats
np_add(a, b) == np_sub(a, np_sub(AsFloat(0), b))

\* Series.sum() of a column of floats
RECURSIVE np_sum(_)
np_sum(xs) == IF xs = <<>> THEN AsFloat(0) ELSE np_add(Head(xs), np_sum(Tail(xs)))

\* sort_values('total_revenue', ascending=True)
RECURSIVE sort_values_ascending(_)
sort_values_ascending(rows) ==
    IF rows = <<>> THEN <<>>
    ELSE LET m == CHOOSE i \in 1..Len(rows) :
                      /\ \A j \in 1..Len(rows) :
                            np_le(rows[i].total_revenue, rows[j].total_revenue)
                      /\ \A j \in 1..(i - 1) :
                            rows[j].total_revenue # rows[i].total_revenue
         IN  <<rows[m]>> \o sort_values_ascending(
                 [j \in 1..(Len(rows) - 1) |->
                     IF j < m THEN rows[j] ELSE rows[j + 1]])

\* sort_values('total_revenue', ascending=False): the largest revenue first;
\* rows of equal revenue keep their order
RECURSIVE sort_values(_)
sort_values(rows) ==
    IF rows = <<>> THEN <<>>
    ELSE LET m == CHOOSE i \in 1..Len(rows) :
                      /\ \A j \in 1..Len(rows) :
                            np_le(rows[j].total_revenue, rows[i].total_revenue)
                      /\ \A j \in 1..(i - 1) :
                            rows[j].total_revenue # rows[i].total_revenue
         IN  <<rows[m]>> \o sort_values(
                 [j \in 1..(Len(rows) - 1) |->
                     IF j < m THEN rows[j] ELSE rows[j + 1]])

\* revenue_share_pct with the group's revenue taken against the largest
\* group's revenue instead of the total
revenue_share_pct_of_largest(rows) ==
    [i \in 1..Len(rows) |->
        round2(np_scale(np_div(rows[i].total_revenue,
                               rows[CHOOSE m \in 1..Len(rows) :
                                       \A j \in 1..Len(rows) :
                                           np_le(rows[j].total_revenue,
                                                 rows[m].total_revenue)].total_revenue),
                        100))]

\* revenue_share_pct: (total_revenue / total_revenue.sum() * 100).round(2)
revenue_share_pct(rows) ==
    LET total_revenue == np_sum([i \in 1..Len(rows) |-> rows[i].total_revenue])
    IN  [i \in 1..Len(rows) |->
            round2(np_scale(np_div(rows[i].total_revenue, total_revenue), 100))]

\* the category metrics table (lines 216-239): one row per category
category_metrics(category_sales, price_column) ==
    LET groups == groupby(category_sales, <<"product_category_name">>)
        base == [i \in 1..Len(groups) |->
                    LET g == groups[i].rows
                        prices == Values(g, price_column)
                    IN  [key |-> groups[i].key,
                         total_revenue |-> round2(AsFloat(SumSeq(prices))),
                         avg_item_price |-> round2(mean(prices)),
                         total_items |-> Len(prices),
                         total_orders |-> nunique(g, "order_id"),
                         unique_products |-> nunique(g, "product_id")]]
        share == revenue_share_pct(base)
    IN  sort_values(
            [i \in 1..Len(base) |->
                [key |-> base[i].key,
                 total_revenue |-> base[i].total_revenue,
                 avg_item_price |-> base[i].avg_item_price,
                 total_items |-> base[i].total_items,
                 total_orders |-> base[i].total_orders,
                 unique_products |-> base[i].unique_products,
                 avg_order_value |->
                     round2(np_div(base[i].total_revenue,
                                   AsFloat(base[i].total_orders))),
                 items_per_order |->
                     round2(np_div(AsFloat(base[i].total_items),
                                   AsFloat(base[i].total_orders))),
                 revenue_per_product |->
                     round2(np_div(base[i].total_revenue,
                                   AsFloat(base[i].unique_products))),
                 revenue_share_pct |-> share[i]]])

\* the aggregation of calculate_product_category_metrics (lines 198-239)
category_aggregate(category_sales, price_column) ==
    IF "product_category_name_x" \in category_sales.cols
          /\ "product_category_name_y" \notin category_sales.cols
    THEN Raised("KeyError")
    ELSE IF "product_category_name_x" \notin category_sales.cols
          /\ "product_category_name" \notin category_sales.cols
    THEN Returned(EmptyResult)
    ELSE LET named ==
                 IF "product_category_name_x" \in category_sales.cols
                 THEN WithColumn(category_sales, "product_category_name",
                          LAMBDA r : IF isna(r["product_category_name_x"])
                                     THEN r["product_category_name_y"]
                                     ELSE r["product_category_name_x"])
                 ELSE category_sales
             kept == dropna(named, {"product_category_name"})
         IN  IF len(kept) = 0 THEN Warned(EmptyResult)
             ELSE IF {price_column, "order_id", "product_id"} \subseteq kept.cols
             THEN Returned(category_metrics(kept, price_column))
             ELSE Raised("KeyError")

\* the function without its first check (lines 174-177)
calculate_product_category_metrics_unchecked(sales, products_df, price_column) ==
    IF "product_category_name" \in sales.cols
    THEN category_aggregate(sales, price_column)
    ELSE IF ~(ProductCols \subseteq products_df.cols)
    THEN Warned(EmptyResult)
    ELSE IF "product_id" \notin sales.cols
    THEN Raised("KeyError")
    ELSE category_aggregate(
             merge_left(sales, SelectCols(products_df, ProductCols), "product_id"),
             price_column)

\* calculate_product_category_metrics(sales_df, products_df, price_column)
calculate_product_category_metrics(sales, products_df, price_column) ==
    IF "product_category_name" \notin products_df.cols
    THEN Warned(EmptyResult)
    ELSE IF "product_category_name" \in sales.cols
    THEN category_aggregate(sales, price_column)
    ELSE IF "product_id" \notin products_df.cols
    THEN Warned(EmptyResult)
    ELSE IF "product_id" \notin sales.cols
    THEN Raised("KeyError")
    ELSE category_aggregate(
             merge_left(sales, SelectCols(products_df, ProductCols), "product_id"),
             price_column)

\* geo_cols and group_col of calculate_geographic_metrics (lines 274-283)
LevelGeoCols(geographic_level) ==
    CASE geographic_level = "state" -> {"customer_id", "customer_state"}
      [] geographic_level = "city" ->
            {"customer_id", "customer_state", "customer_city"}
      [] OTHER -> {"customer_id", "customer_state", "customer_city",
                   "customer_zip_code_prefix"}

LevelGroupCols(geographic_level) ==
    CASE geographic_level = "state" -> <<"customer_state">>
      [] geographic_level = "city" -> <<"customer_state", "customer_city">>
      [] OTHER -> <<"customer_state", "customer_zip_code_prefix">>

\* the geographic metrics table (lines 309-351): one row per group
geo_metrics(geo_sales, price_column, group_col) ==
    LET groups == groupby(geo_sales, group_col)
        base == [i \in 1..Len(groups) |->
                    LET g == groups[i].rows
                        prices == Values(g, price_column)
                    IN  [key |-> groups[i].key,
                         total_revenue |-> round2(AsFloat(SumSeq(prices))),
                         avg_item_price |-> round2(mean(prices)),
                         total_orders |-> nunique(g, "order_id"),
                         unique_customers |-> nunique(g, "customer_id")]]
        share == revenue_share_pct(base)
    IN  sort_values(
            [i \in 1..Len(base) |->
                [key |-> base[i].key,
                 total_revenue |-> base[i].total_revenue,
                 avg_item_price |-> base[i].avg_item_price,
                 total_orders |-> base[i].total_orders,
                 unique_customers |-> base[i].unique_customers,
                 avg_order_value |->
                     round2(np_div(base[i].total_revenue,
                                   AsFloat(base[i].total_orders))),
                 revenue_per_customer |->
                     round2(np_div(base[i].total_revenue,
                                   AsFloat(base[i].unique_customers))),
                 orders_per_customer |->
                     round2(np_div(AsFloat(base[i].total_orders),
                                   AsFloat(base[i].unique_customers))),
                 revenue_share_pct |-> share[i]]])

\* the aggregation of calculate_geographic_metrics (lines 294-351)
geographic_aggregate(geo_sales, price_column, geographic_level) ==
    IF geographic_level = "state" /\ "customer_state" \notin geo_sales.cols
    THEN Returned(EmptyResult)
    ELSE LET kept == IF geographic_level = "state"
                     THEN dropna(geo_sales, {"customer_state"})
                     ELSE geo_sales
         IN  IF len(kept) = 0 \/ kept.cols = {} THEN Warned(EmptyResult)
             ELSE IF \E j \in 1..Len(LevelGroupCols(geographic_level)) :
                        LevelGroupCols(geographic_level)[j] \notin kept.cols
             THEN Warned(EmptyResult)
             ELSE IF {price_column, "order_id", "customer_id"} \subseteq kept.cols
             THEN Returned(geo_metrics(kept, price_column,
                                       LevelGroupCols(geographic_level)))
             ELSE Raised("KeyError")

\* calculate_geographic_metrics(sales_df, orders_df, customers_df,
\*                              price_column, geographic_level)
calculate_geographic_metrics(sales, orders_df, customers_df, price_column, geographic_level) ==
    IF geographic_level = "state" /\ "customer_state" \in sales.cols
    THEN geographic_aggregate(sales, price_column, geographic_level)
    ELSE IF "customer_id" \notin sales.cols
              /\ (~({"order_id", "customer_id"} \subseteq orders_df.cols)
                     \/ "order_id" \notin sales.cols)
    THEN Raised("KeyError")
    ELSE LET with_customer ==
                 IF "customer_id" \notin sales.cols
                 THEN merge_left(sales,
                          SelectCols(orders_df, {"order_id", "customer_id"}),
                          "order_id")
                 ELSE sales
             available_geo_cols ==
                 LevelGeoCols(geographic_level) \cap customers_df.cols
         IN  IF Cardinality(available_geo_cols) < 2
             THEN Warned(EmptyResult)
             ELSE IF "customer_id" \notin available_geo_cols
             THEN Raised("KeyError")
             ELSE geographic_aggregate(
                      merge_left(with_customer,
                                 SelectCols(customers_df, available_geo_cols),
                                 "customer_id"),
                      price_column, geographic_level)

\* df.drop_duplicates(subset=[c]): the first row of every value of c
drop_duplicates(df, c) ==
    LET first == {i \in 1..len(df) :
                     \A j \in 1..(i - 1) : df.rows[j][c] # df.rows[i][c]}
    IN  Table(df.cols, [i \in 1..Cardinality(first) |-> df.rows[Ascending(first)[i]]])

\* Series.value_counts(normalize=True).to_dict()
value_counts(xs) ==
    [v \in {xs[i] : i \in 1..Len(xs)} |->
        Fin(Cardinality({i \in 1..Len(xs) : xs[i] = v}), Len(xs))]

\* the share, in percent, of the values of xs that are in S (0 for no values)
rate_pct(xs, S) ==
    IF Len(xs) > 0
    THEN Fin(100 * Cardinality({i \in 1..Len(xs) : xs[i] \in S}), Len(xs))
    ELSE AsFloat(0)

\* Series.corr: Pearson's r of the paired values, held as its sign and its
\* square; NaN when one of the two series is constant
corr(xs, ys) ==
    LET n == Len(xs)
        sx == SumSeq(xs)
        sy == SumSeq(ys)
        cov == n * SumSeq([i \in 1..n |-> xs[i] * ys[i]]) - sx * sy
        vx == n * SumSeq([i \in 1..n |-> xs[i] * xs[i]]) - sx * sx
        vy == n * SumSeq([i \in 1..n |-> ys[i] * ys[i]]) - sy * sy
    IN  IF vx = 0 \/ vy = 0 THEN NaN
        ELSE [k |-> "r", sign |-> Sign(cov), squared |-> Fin(cov * cov, vx * vy)]

\* the paired sample is large enough from eleven rows on, or already from ten
enough_pairs_from_ten(n) == n >= 10

\* len(correlation_data) > 10 (line 424)
enough_pairs(n) == n > 10

\* experience_df of calculate_customer_experience_metrics (lines 370-386)
experience_df(sales, reviews_df) ==
    LET merged == IF "review_score" \in sales.cols THEN sales
                  ELSE merge_left(sales,
                           SelectCols(reviews_df, {"order_id", "review_score"}),
                           "order_id")
    IN  IF {"review_score_x", "review_score_y"} \subseteq merged.cols
        THEN SelectCols(
                 WithColumn(merged, "review_score",
                     LAMBDA r :
                         IF Len(Values(merged, "review_score_y"))
                                > Len(Values(merged, "review_score_x"))
                         THEN r["review_score_y"] ELSE r["review_score_x"]),
                 (merged.cols \cup {"review_score"})
                     \ {"review_score_x", "review_score_y"})
        ELSE merged

\* the metrics dictionary built from experience_df (lines 388-434)
experience_metrics(df) ==
    LET order_level_df == drop_duplicates(df, "order_id")
        scores == IF "review_score" \in df.cols
                  THEN Values(df, "review_score") ELSE <<>>
        delivery_data == IF "delivery_days" \in df.cols
                         THEN dropna(order_level_df, {"delivery_days"})
                         ELSE EmptyFrame
        days == IF "delivery_days" \in df.cols
                THEN Values(delivery_data, "delivery_days") ELSE <<>>
        correlation_data ==
            IF {"delivery_days", "review_score"} \subseteq df.cols
            THEN dropna(df, {"delivery_days", "review_score"})
            ELSE EmptyFrame
        speed_groups ==
            IF "delivery_speed_category" \in correlation_data.cols
            THEN {c[1] : c \in UniqueCells(correlation_data,
                                           "delivery_speed_category") \ {NULL}}
            ELSE {}
        of_speed(c) == Values(FilterRows(correlation_data,
                                  LAMBDA r : r["delivery_speed_category"] = Val(c)),
                              "review_score")
        keys ==
            (IF Len(scores) > 0
             THEN {"avg_review_score", "median_review_score",
                   "review_score_distribution", "satisfaction_rate_pct"}
             ELSE {})
            \cup (IF Len(days) > 0
                  THEN {"avg_delivery_days", "median_delivery_days",
                        "fast_delivery_rate_pct"}
                       \cup (IF "delivery_speed_category" \in df.cols
                             THEN {"delivery_speed_distribution"} ELSE {})
                  ELSE {})
            \cup (IF enough_pairs(len(correlation_data))
                  THEN {"delivery_satisfaction_correlation"}
                       \cup (IF "delivery_speed_category" \in df.cols
                             THEN {"delivery_speed_vs_satisfaction"} ELSE {})
                  ELSE {})
    IN  [key \in keys |->
            CASE key = "avg_review_score" -> mean(scores)
              [] key = "median_review_score" -> median(scores)
              [] key = "review_score_distribution" -> value_counts(scores)
              [] key = "satisfaction_rate_pct" ->
                     rate_pct(scores, {v \in {scores[i] : i \in 1..Len(scores)} : v >= 4})
              [] key = "avg_delivery_days" -> mean(days)
              [] key = "median_delivery_days" -> median(days)
              [] key = "delivery_speed_distribution" ->
                     value_counts(Values(dropna(delivery_data,
                                                {"delivery_speed_category"}),
                                         "delivery_speed_category"))
              [] key = "fast_delivery_rate_pct" ->
                     rate_pct(days, {d \in {days[i] : i \in 1..Len(days)} : d <= 3})
              [] key = "delivery_speed_vs_satisfaction" ->
                     [mean |-> [c \in speed_groups |-> mean(of_speed(c))],
                      count |-> [c \in speed_groups |-> Len(of_speed(c))]]
              [] OTHER -> corr(Values(correlation_data, "delivery_days"),
                               Values(correlation_data, "review_score"))]

\* calculate_customer_experience_metrics(sales_df, reviews_df): it raises only
\* in the merge with the reviews and in drop_duplicates(subset=['order_id'])
calculate_customer_experience_metrics(sales, reviews_df) ==
    IF "review_score" \notin sales.cols
          /\ ~({"order_id", "review_score"} \subseteq reviews_df.cols)
    THEN Raised("KeyError")
    ELSE IF "order_id" \notin sales.cols
    THEN Raised("KeyError")
    ELSE Returned(experience_metrics(experience_df(sales, reviews_df)))

\* status_dist.get(key, 0) * 100
status_rate_pct(status_dist, key) ==
    IF key \in DOMAIN status_dist THEN np_scale(status_dist[key], 100)
    ELSE AsFloat(0)

\* the fulfillment rate of lines 467-469: delivered or shipped orders over
\* all the orders of orders_df
fulfillment_rate_pct(orders_df) ==
    LET successful_orders ==
            FilterRows(orders_df,
                LAMBDA r : r["order_status"] \in {Val("delivered"), Val("shipped")})
    IN  IF len(orders_df) > 0
        THEN Fin(100 * len(successful_orders), len(orders_df))
        ELSE AsFloat(0)

\* calculate_operational_metrics(sales_df, orders_df): every column it reads
\* is tested first, so it returns a dictionary for any two tables
calculate_operational_metrics(sales, orders_df) ==
    LET has_status == "order_status" \in orders_df.cols
        status_dist == value_counts(Values(orders_df, "order_status"))
        delivered_sales ==
            IF "order_status" \in sales.cols
            THEN FilterRows(sales, LAMBDA r : r["order_status"] = Val("delivered"))
            ELSE sales
        keys == {"delivered_revenue"} \cup
                    IF has_status
                    THEN {"order_status_distribution", "delivery_rate_pct",
                          "cancellation_rate_pct", "return_rate_pct",
                          "fulfillment_rate_pct"}
                    ELSE {}
    IN  Returned(
            [key \in keys |->
                CASE key = "order_status_distribution" -> status_dist
                  [] key = "delivery_rate_pct" ->
                         status_rate_pct(status_dist, "delivered")
                  [] key = "cancellation_rate_pct" ->
                         status_rate_pct(status_dist, "canceled")
                  [] key = "return_rate_pct" ->
                         status_rate_pct(status_dist, "returned")
                  [] key = "delivered_revenue" ->
                         IF "price" \in delivered_sales.cols
                         THEN SumSeq(Values(delivered_sales, "price"))
                         ELSE 0
                  [] key = "fulfillment_rate_pct" ->
                         fulfillment_rate_pct(orders_df)])

\* the metric groups of the summary, in the order they are computed
SummaryGroups ==
    <<"revenue", "categories", "geography", "customer_experience", "operations">>

\* the outcome of the i-th metric computation of generate_metrics_summary
GroupOutcome(i, sales, products_df, orders_df, customers_df, reviews_df) ==
    CASE i = 1 -> calculate_revenue_metrics(sales, "price")
      [] i = 2 -> calculate_product_category_metrics(sales, products_df, "price")
      [] i = 3 -> calculate_geographic_metrics(sales, orders_df, customers_df,
                                               "price", "state")
      [] i = 4 -> calculate_customer_experience_metrics(sales, reviews_df)
      [] i = 5 -> calculate_operational_metrics(sales, orders_df)

\* the outcomes of the five metric computations, in the order of the try block
GroupOutcomes(sales, products_df, orders_df, customers_df, reviews_df) ==
    [i \in 1..5 |->
        GroupOutcome(i, sales, products_df, orders_df, customers_df, reviews_df)]

\* the summary without the try/except: an exception of a computation propagates
summary_uncaught(outs, analysis_period) ==
    LET failed == {i \in 1..5 : outs[i].raised # "none"}
    IN  IF failed = {}
        THEN [raised |-> "none", warned |-> 0,
              value |-> [k \in {"period"} \cup {SummaryGroups[i] : i \in 1..5} |->
                            IF k = "period" THEN analysis_period
                            ELSE outs[CHOOSE i \in 1..5 : SummaryGroups[i] = k].value]]
        ELSE [raised |-> "KeyError", warned |-> 0, value |-> EmptyFrame]

\* the same computations without the try/except
generate_metrics_summary_uncaught(sales, products_df, orders_df, customers_df, reviews_df, analysis_period) ==
    summary_uncaught(GroupOutcomes(sales, products_df, orders_df, customers_df,
                                   reviews_df), analysis_period)

\* the try block: the groups are stored in order; the first exception ends the
\* block and is turned into a warning
summary_of(outs, analysis_period) ==
    LET failed == {i \in 1..5 : outs[i].raised # "none"}
        done == IF failed = {} THEN 1..5
                ELSE 1..((CHOOSE i \in failed : \A j \in failed : i <= j) - 1)
    IN  [raised |-> "none",
         warned |-> IF failed = {} THEN 0 ELSE 1,
         value |-> [k \in {"period"} \cup {SummaryGroups[i] : i \in done} |->
                       IF k = "period" THEN analysis_period
                       ELSE outs[CHOOSE i \in done : SummaryGroups[i] = k].value]]

\* generate_metrics_summary(...): the groups are computed in order inside one
\* try block
generate_metrics_summary(sales, products_df, orders_df, customers_df, reviews_df, analysis_period) ==
    summary_of(GroupOutcomes(sales, products_df, orders_df, customers_df,
                             reviews_df), analysis_period)

----------------------------------------------------------------------------
(* In-place effects.  A function body is read as the sequence of the        *)
(* statements that bind a table variable or assign into one:                *)
(*   copy     var = src.copy()                                              *)
(*   derive   var = a new table computed from src (merge, df[mask],         *)
(*            df[cols], groupby, drop, dropna, reset_index, sort_values)    *)
(*   alias    var = src                                                     *)
(*   setitem  var[src] = ...   (a column of a table, a key of a dictionary) *)
(* The statements of all branches are listed, in source order.  A variable  *)
(* refers to one of the caller's objects or to a "fresh" object.            *)

Stmt(line, var, op, src) == [line |-> line, var |-> var, op |-> op, src |-> src]

\* the caller's objects
Objects == {"dict", "order_items", "orders", "products", "customers",
            "reviews", "sales", "comparison"}

\* the object each parameter (and each entry of a dictionary parameter)
\* refers to on entry
Params(fn) ==
    CASE fn \in {"clean_and_prepare_data", "create_sales_dataset"} ->
             [datasets |-> "dict", datasets_orders |-> "orders",
              datasets_reviews |-> "reviews",
              datasets_order_items |-> "order_items"]
      [] fn = "filter_data_by_date_range" -> [df |-> "sales"]
      [] fn = "calculate_growth_metrics" ->
             [current_df |-> "sales", previous_df |-> "comparison"]
      [] OTHER ->
             [sales_df |-> "sales", orders_df |-> "orders",
              products_df |-> "products", customers_df |-> "customers",
              reviews_df |-> "reviews"]

\* the binding and assigning statements of each function
Body(fn) ==
    CASE fn = "clean_and_prepare_data" ->
             <<Stmt(75, "cleaned_datasets", "copy", "datasets"),
               Stmt(80, "orders", "copy", "datasets_orders"),
               Stmt(98, "orders", "setitem", "order_purchase_timestamp"),
               Stmt(108, "orders", "setitem", "purchase_date"),
               Stmt(109, "orders", "setitem", "purchase_year"),
               Stmt(110, "orders", "setitem", "purchase_month"),
               Stmt(111, "orders", "setitem", "purchase_day_of_week"),
               Stmt(120, "cleaned_datasets", "setitem", "orders"),
               Stmt(127, "reviews", "copy", "datasets_reviews"),
               Stmt(133, "reviews", "setitem", "review_creation_date"),
               Stmt(140, "reviews", "setitem", "review_answer_timestamp"),
               Stmt(150, "cleaned_datasets", "setitem", "reviews")>>
      [] fn = "create_sales_dataset" ->
             <<Stmt(182, "sales_data", "derive", "datasets_order_items"),
               Stmt(182, "sales_data", "copy", "sales_data"),
               Stmt(197, "sales_data", "derive", "sales_data"),
               Stmt(211, "sales_data", "derive", "sales_data"),
               Stmt(211, "sales_data", "copy", "sales_data"),
               Stmt(223, "sales_data", "setitem", "delivery_days"),
               Stmt(237, "sales_data", "setitem", "delivery_speed_category")>>
      [] fn = "filter_data_by_date_range" ->
             <<Stmt(291, "filtered_df", "copy", "df"),
               Stmt(302, "filtered_df", "setitem", "order_purchase_timestamp"),
               Stmt(307, "filtered_df", "derive", "filtered_df"),
               Stmt(312, "filtered_df", "derive", "filtered_df"),
               Stmt(318, "filtered_df", "derive", "filtered_df"),
               Stmt(323, "filtered_df", "derive", "filtered_df")>>
      [] fn = "add_product_categories" ->
             <<Stmt(360, "sales_with_categories", "copy", "sales_df"),
               Stmt(361, "sales_with_categories", "setitem", "product_category_name"),
               Stmt(374, "result_df", "derive", "sales_df")>>
      [] fn = "add_customer_geography" ->
             <<Stmt(409, "sales_df", "derive", "sales_df"),
               Stmt(437, "result_df", "derive", "sales_df")>>
      [] fn = "add_review_data" ->
             <<Stmt(486, "result_df", "derive", "sales_df")>>
      [] fn = "calculate_revenue_metrics" ->
             <<Stmt(43, "order_values", "derive", "sales_df"),
               Stmt(48, "items_per_order", "derive", "sales_df")>>
      [] fn = "calculate_growth_metrics" ->
             <<Stmt(76, "current_metrics", "derive", "current_df"),
               Stmt(77, "previous_metrics", "derive", "previous_df")>>
      [] fn = "calculate_monthly_trends" ->
             <<Stmt(120, "df", "copy", "sales_df"),
               Stmt(124, "df", "setitem", "order_purchase_timestamp"),
               Stmt(128, "df", "derive", "df"),
               Stmt(131, "df", "setitem", "year"),
               Stmt(132, "df", "setitem", "month"),
               Stmt(135, "monthly_metrics", "derive", "df"),
               Stmt(142, "monthly_metrics", "derive", "monthly_metrics"),
               Stmt(144, "monthly_metrics", "setitem", "avg_order_value"),
               Stmt(147, "monthly_metrics", "setitem", "revenue_mom_growth"),
               Stmt(148, "monthly_metrics", "setitem", "orders_mom_growth"),
               Stmt(149, "monthly_metrics", "setitem", "aov_mom_growth")>>
      [] fn = "calculate_product_category_metrics" ->
             <<Stmt(182, "category_sales", "copy", "sales_df"),
               Stmt(192, "category_sales", "derive", "sales_df"),
               Stmt(200, "category_sales", "setitem", "product_category_name"),
               Stmt(201, "category_sales", "derive", "category_sales"),
               Stmt(210, "category_sales", "derive", "category_sales"),
               Stmt(217, "category_metrics", "derive", "category_sales"),
               Stmt(234, "category_metrics", "setitem", "revenue_share_pct")>>
      [] fn = "calculate_geographic_metrics" ->
             <<Stmt(263, "geo_sales", "copy", "sales_df"),
               Stmt(267, "geo_sales", "copy", "sales_df"),
               Stmt(271, "geo_sales", "derive", "geo_sales"),
               Stmt(292, "geo_sales", "derive", "geo_sales"),
               Stmt(301, "geo_sales", "derive", "geo_sales"),
               Stmt(313, "geo_metrics", "derive", "geo_sales"),
               Stmt(346, "geo_metrics", "setitem", "revenue_share_pct"),
               Stmt(349, "geo_metrics", "derive", "geo_metrics")>>
      [] fn = "calculate_customer_experience_metrics" ->
             <<Stmt(373, "experience_df", "copy", "sales_df"),
               Stmt(376, "experience_df", "derive", "sales_df"),
               Stmt(382, "experience_df", "setitem", "review_score"),
               Stmt(386, "experience_df", "derive", "experience_df"),
               Stmt(389, "order_level_df", "derive", "experience_df")>>
      [] fn = "calculate_operational_metrics" ->
             <<Stmt(463, "delivered_sales", "alias", "sales_df"),
               Stmt(468, "successful_orders", "derive", "orders_df")>>
      [] fn = "calculate_cohort_metrics" ->
             <<Stmt(490, "df", "copy", "sales_df"),
               Stmt(494, "df", "setitem", "order_purchase_timestamp"),
               Stmt(497, "df", "setitem", "year_month"),
               Stmt(500, "customer_cohorts", "derive", "df"),
               Stmt(501, "customer_cohorts", "setitem", "cohort_month"),
               Stmt(505, "df", "derive", "df"),
               Stmt(508, "df", "setitem", "period_number")>>

\* a binding that would share the object when .copy() did not copy
refers_without_copy(op) == op \in {"alias", "copy"}

\* the variable bound by the statement refers to the object of its source
refers_to_source(op) == op = "alias"

\* the columns (or keys) assigned into each of the caller's objects by the
\* statements of body from the i-th on, env giving the object of each variable
RECURSIVE written_from(_, _, _, _)
written_from(body, i, env, written) ==
    IF i > Len(body) THEN written
    ELSE LET s == body[i]
         IN  IF s.op = "setitem"
             THEN written_from(body, i + 1, env,
                      IF env[s.var] = "fresh" THEN written
                      ELSE [written EXCEPT ![env[s.var]] = @ \cup {s.src}])
             ELSE written_from(body, i + 1,
                      SetItem(env, s.var,
                              IF refers_to_source(s.op) THEN env[s.src] ELSE "fresh"),
                      written)

written_by(fn) == written_from(Body(fn), 1, Params(fn), [o \in Objects |-> {}])

\* a table after the columns cs were assigned into it in place
Assigned(df, cs) ==
    IF cs = {} THEN df
    ELSE Table(df.cols \cup cs,
               [i \in 1..len(df) |->
                   [c \in df.cols \cup cs |->
                       IF c \in cs THEN Val("assigned") ELSE df.rows[i][c]]])

----------------------------------------------------------------------------
(* The tables the loader is run on *)

MaxItems == 2
MaxDimRows == 2
MaxCalls == 2

OrderIds == {1, 2}
ProductIds == {1, 2}
CustomerIds == {1, 2}

\* all sequences over S of length lo..hi
SeqsOf(S, lo, hi) == UNION {[1..n -> S] : n \in lo..hi}

\* the unit price of a product
PriceOf(pid) == 50 * pid

\* order_item_id numbers the items of one order 1, 2, ...
ItemTable(keys) ==
    Table(ItemCols,
          [i \in 1..Len(keys) |->
              [order_id |-> Val(keys[i][1]),
               order_item_id |->
                   Val(Cardinality({j \in 1..i : keys[j][1] = keys[i][1]})),
               product_id |-> Val(keys[i][2]),
               price |-> Val(PriceOf(keys[i][2])),
               freight_value |-> Val(5)]])

ItemTables(n) == {ItemTable(k) : k \in SeqsOf(OrderIds \X ProductIds, 1, n)}

OrderStatuses == {"delivered", "canceled"}

LoadedOrdersCols == {"order_id", "order_status", "order_purchase_timestamp",
                     "order_delivered_customer_date", "customer_id"}

\* one order per customer; order o is bought on day 10 * o, and a delivered
\* order reaches the customer 2 days (order 1) or 9 days (order 2) later
OrderRow(o, status) ==
    [order_id |-> Val(o),
     order_status |-> Val(status),
     order_purchase_timestamp |-> Val(10 * o),
     order_delivered_customer_date |->
         IF status = "delivered" THEN Val(10 * o + 7 * o - 5) ELSE NULL,
     customer_id |-> Val(o)]

\* the orders table holds each order id at most once, in ascending order
RECURSIVE OrderRows(_, _)
OrderRows(st, o) ==
    IF o \notin OrderIds THEN <<>>
    ELSE (IF st[o] = "absent" THEN <<>> ELSE <<OrderRow(o, st[o])>>)
             \o OrderRows(st, o + 1)

OrderTables ==
    {Table(LoadedOrdersCols, OrderRows(st, 1)) :
        st \in [OrderIds -> OrderStatuses \cup {"absent"}]}

\* product 1 is a toy; product 2 is in the catalog without a category
CategoryOf(pid) == IF pid = 1 THEN Val("toys") ELSE NULL

\* a products table restricted to the columns cs
ProductTablesOver(cs, n) ==
    {SelectCols(Table(ProductCols,
                      [i \in 1..Len(k) |->
                          [product_id |-> Val(k[i]),
                           product_category_name |-> CategoryOf(k[i])]]), cs) :
        k \in SeqsOf(ProductIds, 0, n)}

ProductTables(n) ==
    UNION {ProductTablesOver(cs, n) :
              cs \in {ProductCols, {"product_id"}, {"product_category_name"}}}

StateOf(c) == IF c = 1 THEN "SP" ELSE "RJ"

CustomerTablesOver(cs, n) ==
    {SelectCols(Table(GeoCols,
                      [i \in 1..Len(k) |->
                          [customer_id |-> Val(k[i]),
                           customer_state |-> Val(StateOf(k[i])),
                           customer_city |-> Val("city of " \o StateOf(k[i])),
                           customer_zip_code_prefix |-> Val(1000 * k[i])]]), cs) :
        k \in SeqsOf(CustomerIds, 0, n)}

CustomerTables(n) ==
    UNION {CustomerTablesOver(cs, n) :
              cs \in {GeoCols, GeoCols \ {"customer_id"}}}

\* order 1 is reviewed with 5 stars, order 2 with 1 star; the i-th review
\* is created on day 30 + i
ScoreOf(o) == IF o = 1 THEN 5 ELSE 1

ReviewTablesOver(cs, n) ==
    {SelectCols(Table(ReviewCols,
                      [i \in 1..Len(k) |->
                          [order_id |-> Val(k[i]),
                           review_score |-> Val(ScoreOf(k[i])),
                           review_creation_date |-> Val(30 + i)]]), cs) :
        k \in SeqsOf(OrderIds, 0, n)}

ReviewTables(n) ==
    UNION {ReviewTablesOver(cs, n) :
              cs \in {ReviewCols, ReviewCols \ {"order_id"}}}

StatusFilters == {"delivered", "None"}

NoMetrics == [raised |-> "none"]

\* a call made with the default value of every keyword argument
NoArgs == [defaults |-> TRUE]

----------------------------------------------------------------------------
(* The loader as a library: create_sales_dataset, then one enrichment      *)
(* function applied with a dimension table, and applied again to its own   *)
(* output with the same dimension table.                                   *)

LoaderInit ==
    /\ datasets \in {[order_items |-> i, orders |-> o, products |-> EmptyFrame,
                      customers |-> EmptyFrame, reviews |-> EmptyFrame] :
                        i \in ItemTables(MaxItems), o \in OrderTables}
    /\ sales_df = EmptyFrame
    /\ prev_df = EmptyFrame
    /\ comparison_df = EmptyFrame
    /\ last_call = "none"
    /\ calls = 0
    /\ raised = "none"
    /\ metrics = NoMetrics
    /\ summary = NoMetrics
    /\ warned = 0
    /\ args = NoArgs

\* sales_df = f(sales_df, ...): the assignment happens only when f returns
Assign(out, name) ==
    /\ prev_df' = sales_df
    /\ sales_df' = IF out.raised = "none" THEN out.value ELSE sales_df
    /\ raised' = out.raised
    /\ last_call' = name
    /\ UNCHANGED <<comparison_df, metrics, summary, warned, args>>

CreateSalesDataset ==
    /\ last_call = "none"
    /\ \E f \in StatusFilters :
          Assign(create_sales_dataset(datasets, f), "create_sales_dataset")
    /\ UNCHANGED <<datasets, calls>>

\* an enrichment function may be called on the fresh sales table, or again
\* on its own output with the table it was given before
MayEnrich(name) ==
    /\ raised = "none"
    /\ calls < MaxCalls
    /\ \/ last_call = "create_sales_dataset"
       \/ last_call = name

AddProductCategories ==
    /\ MayEnrich("add_product_categories")
    /\ \E p \in IF calls = 0 THEN ProductTables(MaxDimRows)
                ELSE {datasets.products} :
          /\ datasets' = [datasets EXCEPT !.products = p]
          /\ Assign(add_product_categories(sales_df, p), "add_product_categories")
    /\ calls' = calls + 1

AddCustomerGeography ==
    /\ MayEnrich("add_customer_geography")
    /\ \E c \in IF calls = 0 THEN CustomerTables(MaxDimRows)
                ELSE {datasets.customers} :
          /\ datasets' = [datasets EXCEPT !.customers = c]
          /\ Assign(add_customer_geography(sales_df, datasets.orders, c),
                    "add_customer_geography")
    /\ calls' = calls + 1

AddReviewData ==
    /\ MayEnrich("add_review_data")
    /\ \E r \in IF calls = 0 THEN ReviewTables(MaxDimRows)
                ELSE {datasets.reviews} :
          /\ datasets' = [datasets EXCEPT !.reviews = r]
          /\ Assign(add_review_data(sales_df, r), "add_review_data")
    /\ calls' = calls + 1

LoaderNext ==
    \/ CreateSalesDataset
    \/ AddProductCategories
    \/ AddCustomerGeography
    \/ AddReviewData

SpecLoader == LoaderInit /\ [][LoaderNext]_vars

----------------------------------------------------------------------------
(* The dashboard's load_and_process_data: the five source files are loaded  *)
(* (a file that fails to load leaves no entry in datasets), and the sales  *)
(* table is built by create_sales_dataset and the three enrichments.       *)

\* the entry of a source that did not load: the key is not in the dictionary
Missing == [cols |-> {}, rows |-> <<>>, missing |-> TRUE]

\* what a function gives back in place of a table when it returns None
NoneValue == [none |-> TRUE]

\* products and customers files hold each id at most once, in ascending order
ProductFiles ==
    {Table(ProductCols,
           [i \in 1..Cardinality(ps) |->
               [product_id |-> Val(Ascending(ps)[i]),
                product_category_name |-> CategoryOf(Ascending(ps)[i])]]) :
        ps \in SUBSET ProductIds}

CustomerFiles ==
    {Table(GeoCols,
           [i \in 1..Cardinality(cs) |->
               [customer_id |-> Val(Ascending(cs)[i]),
                customer_state |-> Val(StateOf(Ascending(cs)[i])),
                customer_city |-> Val("city of " \o StateOf(Ascending(cs)[i])),
                customer_zip_code_prefix |-> Val(1000 * Ascending(cs)[i])]]) :
        cs \in SUBSET CustomerIds}

\* load_and_process_data(): the sales table, or None when a step raised
load_and_process_data(ds) ==
    IF ds.order_items = Missing \/ ds.orders = Missing THEN NoneValue
    ELSE LET created == create_sales_dataset(ds, "delivered")
         IN  IF created.raised # "none" \/ ds.products = Missing THEN NoneValue
             ELSE LET categorized == add_product_categories(created.value, ds.products)
                  IN  IF categorized.raised # "none" \/ ds.customers = Missing
                      THEN NoneValue
                      ELSE LET located == add_customer_geography(
                                              categorized.value, ds.orders, ds.customers)
                           IN  IF located.raised # "none" \/ ds.reviews = Missing
                               THEN NoneValue
                               ELSE LET reviewed == add_review_data(located.value,
                                                                    ds.reviews)
                                    IN  IF reviewed.raised # "none" THEN NoneValue
                                        ELSE reviewed.value

PipelineInit ==
    /\ datasets \in {[order_items |-> i, orders |-> o, products |-> p,
                      customers |-> c, reviews |-> r] :
                        i \in ItemTables(MaxItems), o \in OrderTables,
                        p \in ProductFiles \cup {Missing},
                        c \in CustomerFiles \cup {Missing},
                        r \in ReviewTablesOver(ReviewCols, MaxDimRows) \cup {Missing}}
    /\ sales_df = EmptyFrame
    /\ prev_df = EmptyFrame
    /\ comparison_df = EmptyFrame
    /\ last_call = "none"
    /\ calls = 0
    /\ raised = "none"
    /\ metrics = NoMetrics
    /\ summary = NoMetrics
    /\ warned = 0
    /\ args = NoArgs

LoadAndProcessData ==
    /\ last_call = "none"
    /\ sales_df' = load_and_process_data(datasets)
    /\ last_call' = "load_and_process_data"
    /\ UNCHANGED <<datasets, prev_df, comparison_df, calls, raised, metrics,
                   summary, warned, args>>

PipelineNext == LoadAndProcessData

SpecPipeline == PipelineInit /\ [][PipelineNext]_vars

----------------------------------------------------------------------------
(* calculate_revenue_metrics on a sales table *)

MaxSales == 4
MaxPeriodRows == 2

RevenueOrderIds == {1, 2, 3}
RevenuePrices == {10, 20, 30}

\* sales tables of lo..hi items, each an order id and a price
PricedTables(ids, prices, lo, hi) ==
    {Table({"order_id", "price"},
           [i \in 1..Len(k) |-> [order_id |-> Val(k[i][1]), price |-> Val(k[i][2])]]) :
        k \in SeqsOf(ids \X prices, lo, hi)}

RevenueInit ==
    /\ sales_df \in PricedTables(RevenueOrderIds, RevenuePrices, 0, MaxSales)
    /\ datasets = [order_items |-> EmptyFrame, orders |-> EmptyFrame,
                   products |-> EmptyFrame, customers |-> EmptyFrame,
                   reviews |-> EmptyFrame]
    /\ prev_df = EmptyFrame
    /\ comparison_df = EmptyFrame
    /\ last_call = "none"
    /\ calls = 0
    /\ raised = "none"
    /\ metrics = NoMetrics
    /\ summary = NoMetrics
    /\ warned = 0
    /\ args = NoArgs

\* metrics = f(...): the dictionary a metrics function returned, if it returned
Result(out, name) ==
    /\ metrics' = IF out.raised = "none" THEN out.value ELSE NoMetrics
    /\ raised' = out.raised
    /\ last_call' = name
    /\ UNCHANGED <<datasets, sales_df, prev_df, comparison_df, calls, summary,
                   warned, args>>

CalculateRevenueMetrics ==
    /\ last_call = "none"
    /\ Result(calculate_revenue_metrics(sales_df, "price"),
              "calculate_revenue_metrics")

RevenueNext == CalculateRevenueMetrics

SpecRevenue == RevenueInit /\ [][RevenueNext]_vars

----------------------------------------------------------------------------
(* calculate_growth_metrics on a current and a previous period *)

PeriodOrderIds == {1, 2}
PeriodPrices == {0, 50, 100}

GrowthInit ==
    /\ sales_df \in PricedTables(PeriodOrderIds, PeriodPrices, 0, MaxPeriodRows)
    /\ comparison_df \in PricedTables(PeriodOrderIds, PeriodPrices, 0, MaxPeriodRows)
    /\ datasets = [order_items |-> EmptyFrame, orders |-> EmptyFrame,
                   products |-> EmptyFrame, customers |-> EmptyFrame,
                   reviews |-> EmptyFrame]
    /\ prev_df = EmptyFrame
    /\ last_call = "none"
    /\ calls = 0
    /\ raised = "none"
    /\ metrics = NoMetrics
    /\ summary = NoMetrics
    /\ warned = 0
    /\ args = NoArgs

CalculateGrowthMetrics ==
    /\ last_call = "none"
    /\ Result(calculate_growth_metrics(sales_df, comparison_df, "price"),
              "calculate_growth_metrics")

GrowthNext == CalculateGrowthMetrics

SpecGrowth == GrowthInit /\ [][GrowthNext]_vars

----------------------------------------------------------------------------
(* generate_metrics_summary on a sales table and the four dimension tables, *)
(* any of which may lack columns                                            *)

MaxSummaryRows == 2

SummarySalesCols == {"order_id", "product_id", "price", "customer_id",
                     "product_category_name", "customer_state", "review_score"}

\* the sales row of order o: one item of product o bought by customer o
SummarySalesRow(o) ==
    [order_id |-> Val(o),
     product_id |-> Val(o),
     price |-> Val(PriceOf(o)),
     customer_id |-> Val(o),
     product_category_name |-> CategoryOf(o),
     customer_state |-> Val(StateOf(o)),
     review_score |-> Val(ScoreOf(o))]

\* the column sets of a sales table: all the columns, or all but one or two
SummarySalesColSets ==
    {SummarySalesCols} \cup
        {SummarySalesCols \ {a, b} : a \in SummarySalesCols, b \in SummarySalesCols}

\* sales tables over any of the orders 1..n, lacking up to two columns
SummarySalesTables(n) ==
    {SelectCols(Table(SummarySalesCols,
                      [i \in 1..Cardinality(os) |->
                          SummarySalesRow(Ascending(os)[i])]), cs) :
        os \in SUBSET (1..n), cs \in SummarySalesColSets}

SummaryProducts ==
    {SelectCols(Table(ProductCols,
                      [i \in 1..2 |-> [product_id |-> Val(i),
                                       product_category_name |-> CategoryOf(i)]]),
                cs) : cs \in SUBSET ProductCols}

SummaryOrders ==
    {SelectCols(Table(LoadedOrdersCols,
                      OrderRows([o \in OrderIds |-> "delivered"], 1)), cs) :
        cs \in {LoadedOrdersCols, LoadedOrdersCols \ {"customer_id"},
                LoadedOrdersCols \ {"order_id"}}}

SummaryCustomers ==
    {SelectCols(Table(GeoCols,
                      [i \in 1..2 |->
                          [customer_id |-> Val(i),
                           customer_state |-> Val(StateOf(i)),
                           customer_city |-> Val("city of " \o StateOf(i)),
                           customer_zip_code_prefix |-> Val(1000 * i)]]),
                cs) : cs \in {GeoCols, GeoCols \ {"customer_id"},
                              GeoCols \ {"customer_state"}}}

SummaryReviews ==
    {SelectCols(Table(ReviewCols,
                      [i \in 1..2 |-> [order_id |-> Val(i),
                                       review_score |-> Val(ScoreOf(i)),
                                       review_creation_date |-> Val(30 + i)]]),
                cs) : cs \in {ReviewCols, ReviewCols \ {"order_id"},
                              ReviewCols \ {"review_score"}}}

SummaryInit ==
    /\ sales_df \in SummarySalesTables(MaxSummaryRows)
    /\ datasets \in {[order_items |-> EmptyFrame, orders |-> o, products |-> p,
                      customers |-> c, reviews |-> r] :
                        o \in SummaryOrders, p \in SummaryProducts,
                        c \in SummaryCustomers, r \in SummaryReviews}
    /\ prev_df = EmptyFrame
    /\ comparison_df = EmptyFrame
    /\ last_call = "none"
    /\ calls = 0
    /\ raised = "none"
    /\ metrics = NoMetrics
    /\ summary = NoMetrics
    /\ warned = 0
    /\ args = NoArgs

GenerateMetricsSummary ==
    /\ last_call = "none"
    /\ \E out \in {generate_metrics_summary(sales_df, datasets.products,
                      datasets.orders, datasets.customers, datasets.reviews,
                      "Current Period")} :
           /\ summary' = IF out.raised = "none" THEN out.value ELSE summary
           /\ warned' = warned + out.warned
           /\ raised' = out.raised
    /\ last_call' = "generate_metrics_summary"
    /\ UNCHANGED <<datasets, sales_df, prev_df, comparison_df, calls, metrics,
                   args>>

SummaryNext == GenerateMetricsSummary

SpecSummary == SummaryInit /\ [][SummaryNext]_vars

----------------------------------------------------------------------------
(* calculate_monthly_trends on a sales table of dated items *)

MaxTrendRows == 3

\* purchases in January 2023, February 2023 and January 2024, or undated
TrendDates == {Val(5), Val(35), Val(365), NULL}
TrendPrices == {90, 100, 150}
YearFilters == {0, 2023}

\* items are listed order by order, two items to an order
TrendTables(n) ==
    {Table({"order_purchase_timestamp", "order_id", "price"},
           [i \in 1..Len(k) |-> [order_purchase_timestamp |-> k[i][1],
                                 order_id |-> Val((i + 1) \div 2),
                                 price |-> Val(k[i][2])]]) :
        k \in SeqsOf(TrendDates \X TrendPrices, 0, n)}

TrendsInit ==
    /\ sales_df \in TrendTables(MaxTrendRows)
    /\ args \in {[year_filter |-> y] : y \in YearFilters}
    /\ datasets = [order_items |-> EmptyFrame, orders |-> EmptyFrame,
                   products |-> EmptyFrame, customers |-> EmptyFrame,
                   reviews |-> EmptyFrame]
    /\ prev_df = EmptyFrame
    /\ comparison_df = EmptyFrame
    /\ last_call = "none"
    /\ calls = 0
    /\ raised = "none"
    /\ metrics = NoMetrics
    /\ summary = NoMetrics
    /\ warned = 0

CalculateMonthlyTrends ==
    /\ last_call = "none"
    /\ Result(calculate_monthly_trends(sales_df, "order_purchase_timestamp",
                                       "price", args.year_filter),
              "calculate_monthly_trends")

TrendsNext == CalculateMonthlyTrends

SpecTrends == TrendsInit /\ [][TrendsNext]_vars

----------------------------------------------------------------------------
(* calculate_product_category_metrics and calculate_geographic_metrics on a *)
(* sales table of items; item e is product e bought by customer e in order  *)
(* e, so a table may hold an item several times                            *)

MaxGroupRows == 3

GroupIds == 1..4

GroupPrice(e) == IF e = 4 THEN 20 ELSE 10

\* product 4 is in the catalog without a category
GroupCategory(e) ==
    CASE e = 1 -> Val("toys") [] e = 2 -> Val("books")
      [] e = 3 -> Val("games") [] OTHER -> NULL

\* customers 1, 3 and 4 live in SP: 1 and 4 in Santos under different zip
\* prefixes, 3 in Campinas under the zip prefix of 1
GroupCustomer(e) ==
    [customer_id |-> Val(e),
     customer_state |-> Val(IF e = 2 THEN "RJ" ELSE "SP"),
     customer_city |-> Val(CASE e = 2 -> "Rio" [] e = 3 -> "Campinas"
                             [] OTHER -> "Santos"),
     customer_zip_code_prefix |-> Val(CASE e = 2 -> 2000 [] e = 4 -> 3000
                                        [] OTHER -> 1000)]

EnrichedCols == {"product_category_name", "customer_state", "customer_city"}

\* the sales tables: plain, or already carrying category, state and city
GroupSalesTables(n) ==
    {SelectCols(
         Table({"order_id", "product_id", "customer_id", "price"} \cup EnrichedCols,
               [i \in 1..Len(k) |->
                   [order_id |-> Val(k[i]),
                    product_id |-> Val(k[i]),
                    customer_id |-> Val(k[i]),
                    price |-> Val(GroupPrice(k[i])),
                    product_category_name |-> GroupCategory(k[i]),
                    customer_state |-> GroupCustomer(k[i]).customer_state,
                    customer_city |-> GroupCustomer(k[i]).customer_city]]),
         {"order_id", "product_id", "customer_id", "price"} \cup extra) :
        k \in SeqsOf(GroupIds, 0, n), extra \in {{}, EnrichedCols}}

GroupProducts ==
    {SelectCols(Table(ProductCols,
                      [e \in GroupIds |-> [product_id |-> Val(e),
                                           product_category_name |-> GroupCategory(e)]]),
                cs) :
        cs \in {ProductCols, {"product_id"}, {"product_category_name"}}}

\* the customers table may lack customer 4 and may lack a column
GroupCustomers ==
    {SelectCols(Table(GeoCols, [e \in 1..last |-> GroupCustomer(e)]), cs) :
        last \in {3, 4},
        cs \in {GeoCols, GeoCols \ {"customer_state"}, GeoCols \ {"customer_id"}}}

GeographicLevels == {"state", "city", "zip"}

GroupsInit ==
    /\ sales_df \in GroupSalesTables(MaxGroupRows)
    /\ datasets \in {[order_items |-> EmptyFrame, orders |-> EmptyFrame,
                      products |-> p, customers |-> c, reviews |-> EmptyFrame] :
                        p \in GroupProducts, c \in GroupCustomers}
    /\ args \in {[geographic_level |-> l] : l \in GeographicLevels}
    /\ prev_df = EmptyFrame
    /\ comparison_df = EmptyFrame
    /\ last_call = "none"
    /\ calls = 0
    /\ raised = "none"
    /\ metrics = NoMetrics
    /\ summary = NoMetrics
    /\ warned = 0

\* metrics = f(sales_df, ...) for a function that may print a warning; the
\* function works on a copy, the caller's table stays as it was passed
TableOf(out, name) ==
    /\ metrics' = IF out.raised = "none" THEN out.value ELSE NoMetrics
    /\ raised' = out.raised
    /\ warned' = IF "warning" \in DOMAIN out THEN 1 ELSE 0
    /\ last_call' = name
    /\ prev_df' = sales_df
    /\ sales_df' = sales_df
    /\ UNCHANGED <<datasets, comparison_df, calls, summary, args>>

CalculateProductCategoryMetrics ==
    /\ last_call = "none"
    /\ TableOf(calculate_product_category_metrics(sales_df, datasets.products,
                                                  "price"),
               "calculate_product_category_metrics")

CalculateGeographicMetrics ==
    /\ last_call = "none"
    /\ TableOf(calculate_geographic_metrics(sales_df, datasets.orders,
                   datasets.customers, "price", args.geographic_level),
               "calculate_geographic_metrics")

GroupsNext ==
    \/ CalculateProductCategoryMetrics
    \/ CalculateGeographicMetrics

SpecGroups == GroupsInit /\ [][GroupsNext]_vars

----------------------------------------------------------------------------
(* calculate_customer_experience_metrics on a sales table of one item per   *)
(* order, some orders without a delivery date and some without a review     *)

MaxExperienceRows == 12

\* n items: the first undelivered ones have no delivery_days, the last
\* unreviewed ones no review
ExperienceSales(n, undelivered, unreviewed) ==
    Table({"order_id", "delivery_days", "delivery_speed_category", "review_score"},
          [i \in 1..n |->
              LET days == IF i <= undelivered THEN NULL ELSE Val(3 * (i % 4) + 1)
              IN  [order_id |-> Val(i),
                   delivery_days |-> days,
                   delivery_speed_category |-> categorize_delivery_speed(days),
                   review_score |-> IF i > n - unreviewed THEN NULL
                                    ELSE Val((i % 5) + 1)]])

\* the sales table as it is, or with the scores in the reviews table
\* instead, and in both cases with or without the delivery columns
ExperienceInputs(rows) ==
    {[sales |-> SelectCols(t, t.cols \ (scored \cup delivered)),
      reviews |-> dropna(SelectCols(t, {"order_id", "review_score"}),
                         {"review_score"})] :
        t \in {ExperienceSales(n, d, r) : n \in 0..rows, d \in 0..rows, r \in 0..rows},
        scored \in {{}, {"review_score"}},
        delivered \in {{}, {"delivery_days", "delivery_speed_category"}}}

ExperienceInit ==
    /\ \E in \in ExperienceInputs(MaxExperienceRows) :
          /\ sales_df = in.sales
          /\ datasets = [order_items |-> EmptyFrame, orders |-> EmptyFrame,
                         products |-> EmptyFrame, customers |-> EmptyFrame,
                         reviews |-> in.reviews]
    /\ args = NoArgs
    /\ prev_df = EmptyFrame
    /\ comparison_df = EmptyFrame
    /\ last_call = "none"
    /\ calls = 0
    /\ raised = "none"
    /\ metrics = NoMetrics
    /\ summary = NoMetrics
    /\ warned = 0

CalculateCustomerExperienceMetrics ==
    /\ last_call = "none"
    /\ Result(calculate_customer_experience_metrics(sales_df, datasets.reviews),
              "calculate_customer_experience_metrics")

ExperienceNext == CalculateCustomerExperienceMetrics

SpecExperience == ExperienceInit /\ [][ExperienceNext]_vars

----------------------------------------------------------------------------
(* calculate_cohort_metrics on a sales table of dated purchases *)

MaxCohortRows == 3

CohortCustomers == {1, 2}

\* purchases in January 2023, February 2023 and January 2024, or undated
CohortTables(n) ==
    {Table({"order_purchase_timestamp", "customer_id", "price"},
           [i \in 1..Len(k) |-> [order_purchase_timestamp |-> k[i][2],
                                 customer_id |-> Val(k[i][1]),
                                 price |-> Val(10)]]) :
        k \in SeqsOf(CohortCustomers \X TrendDates, 0, n)}

CohortInit ==
    /\ sales_df \in CohortTables(MaxCohortRows)
    /\ datasets = [order_items |-> EmptyFrame, orders |-> EmptyFrame,
                   products |-> EmptyFrame, customers |-> EmptyFrame,
                   reviews |-> EmptyFrame]
    /\ args = NoArgs
    /\ prev_df = EmptyFrame
    /\ comparison_df = EmptyFrame
    /\ last_call = "none"
    /\ calls = 0
    /\ raised = "none"
    /\ metrics = NoMetrics
    /\ summary = NoMetrics
    /\ warned = 0

CalculateCohortMetrics ==
    /\ last_call = "none"
    /\ Result(calculate_cohort_metrics(sales_df, "order_purchase_timestamp",
                                       "customer_id"),
              "calculate_cohort_metrics")

CohortNext == CalculateCohortMetrics

SpecCohort == CohortInit /\ [][CohortNext]_vars

----------------------------------------------------------------------------
(* create_sales_dataset on delivered orders of one item each, told apart by *)
(* the time the delivery took                                               *)

MaxDeliveries == 3

\* days from purchase to delivery; no days for an order without a delivery
\* date
DeliveryTimes == {NULL, Val(-1), Val(1), Val(3), Val(4), Val(5), Val(7),
                  Val(8), Val(10)}

\* order i is bought on day 10 * i and delivered times[i] days later
DeliveryDatasets(times) ==
    [order_items |->
         Table(ItemCols,
               [i \in 1..Len(times) |->
                   [order_id |-> Val(i), order_item_id |-> Val(1),
                    product_id |-> Val(1), price |-> Val(PriceOf(1)),
                    freight_value |-> Val(5)]]),
     orders |->
         Table(LoadedOrdersCols,
               [i \in 1..Len(times) |->
                   [order_id |-> Val(i),
                    order_status |-> Val("delivered"),
                    order_purchase_timestamp |-> Val(10 * i),
                    order_delivered_customer_date |->
                        IF isna(times[i]) THEN NULL
                        ELSE Val(10 * i + times[i][1]),
                    customer_id |-> Val(i)]]),
     products |-> EmptyFrame, customers |-> EmptyFrame, reviews |-> EmptyFrame]

DeliveryInit ==
    /\ datasets \in {DeliveryDatasets(t) : t \in SeqsOf(DeliveryTimes, 1, MaxDeliveries)}
    /\ sales_df = EmptyFrame
    /\ prev_df = EmptyFrame
    /\ comparison_df = EmptyFrame
    /\ last_call = "none"
    /\ calls = 0
    /\ raised = "none"
    /\ metrics = NoMetrics
    /\ summary = NoMetrics
    /\ warned = 0
    /\ args = NoArgs

DeliveryNext == CreateSalesDataset

SpecDelivery == DeliveryInit /\ [][DeliveryNext]_vars

----------------------------------------------------------------------------
(* create_sales_dataset with an order status filter, on orders of any       *)
(* status; an order may have no status, and the orders table may have no    *)
(* order_status column                                                      *)

StatusOrderRow(o, status) ==
    [OrderRow(o, "delivered") EXCEPT
        !.order_status = IF status = "null" THEN NULL ELSE Val(status),
        !.order_delivered_customer_date =
            IF status = "delivered" THEN @ ELSE NULL]

RECURSIVE StatusOrderRows(_, _)
StatusOrderRows(st, o) ==
    IF o \notin OrderIds THEN <<>>
    ELSE (IF st[o] = "absent" THEN <<>> ELSE <<StatusOrderRow(o, st[o])>>)
             \o StatusOrderRows(st, o + 1)

StatusOrderTables ==
    {SelectCols(Table(LoadedOrdersCols, StatusOrderRows(st, 1)), cs) :
        st \in [OrderIds -> OrderStatuses \cup {"null", "absent"}],
        cs \in {LoadedOrdersCols, LoadedOrdersCols \ {"order_status"}}}

\* order_status_filter: a status, or None
StatusFilterArgs == OrderStatuses \cup {"None"}

StatusInit ==
    /\ datasets \in {[order_items |-> i, orders |-> o, products |-> EmptyFrame,
                      customers |-> EmptyFrame, reviews |-> EmptyFrame] :
                        i \in ItemTables(MaxItems), o \in StatusOrderTables}
    /\ sales_df = EmptyFrame
    /\ prev_df = EmptyFrame
    /\ comparison_df = EmptyFrame
    /\ last_call = "none"
    /\ calls = 0
    /\ raised = "none"
    /\ metrics = NoMetrics
    /\ summary = NoMetrics
    /\ warned = 0
    /\ args = NoArgs

\* sales_df = create_sales_dataset(datasets, order_status_filter=f)
CreateSalesDatasetFiltered ==
    /\ last_call = "none"
    /\ \E f \in StatusFilterArgs :
          \E out \in {create_sales_dataset(datasets, f)} :
              /\ args' = [order_status_filter |-> f]
              /\ sales_df' = IF out.raised = "none" THEN out.value ELSE sales_df
              /\ raised' = out.raised
    /\ prev_df' = sales_df
    /\ last_call' = "create_sales_dataset"
    /\ UNCHANGED <<datasets, comparison_df, calls, metrics, summary, warned>>

StatusNext == CreateSalesDatasetFiltered

SpecStatus == StatusInit /\ [][StatusNext]_vars

----------------------------------------------------------------------------
(* filter_data_by_date_range on a sales table of dated items, some without  *)
(* a date, with any combination of the four bounds                          *)

MaxFilterRows == 2

\* March and August of 2022 and of 2023, and no date
FilterDates == {Val(-295), Val(-145), Val(65), Val(215), NULL}

FilterCols == {"order_id", "price", "order_purchase_timestamp"}

FilterTables(n) ==
    {SelectCols(Table(FilterCols,
                      [i \in 1..Len(d) |->
                          [order_id |-> Val(i), price |-> Val(10 * i),
                           order_purchase_timestamp |-> d[i]]]), cs) :
        d \in SeqsOf(FilterDates, 0, n),
        cs \in {FilterCols, FilterCols \ {"order_purchase_timestamp"}}}

YearBounds == {NULL, Val(2022), Val(2023)}

MonthBounds == {NULL, Val(3), Val(8)}

FilterInit ==
    /\ sales_df \in FilterTables(MaxFilterRows)
    /\ datasets = [order_items |-> EmptyFrame, orders |-> EmptyFrame,
                   products |-> EmptyFrame, customers |-> EmptyFrame,
                   reviews |-> EmptyFrame]
    /\ prev_df = EmptyFrame
    /\ comparison_df = EmptyFrame
    /\ last_call = "none"
    /\ calls = 0
    /\ raised = "none"
    /\ metrics = NoMetrics
    /\ summary = NoMetrics
    /\ warned = 0
    /\ args = NoArgs

\* sales_df = filter_data_by_date_range(sales_df, ...): the table passed in
\* is kept in prev_df
FilterDataByDateRange ==
    /\ last_call = "none"
    /\ \E sy \in YearBounds, ey \in YearBounds, sm \in MonthBounds, em \in MonthBounds :
          \E out \in {filter_data_by_date_range(sales_df, sy, ey, sm, em,
                                                "order_purchase_timestamp")} :
              /\ args' = [start_year |-> sy, end_year |-> ey,
                          start_month |-> sm, end_month |-> em]
              /\ sales_df' = IF out.raised = "none" THEN out.value ELSE sales_df
              /\ raised' = out.raised
    /\ prev_df' = sales_df
    /\ last_call' = "filter_data_by_date_range"
    /\ UNCHANGED <<datasets, comparison_df, calls, metrics, summary, warned>>

FilterNext == FilterDataByDateRange

SpecFilter == FilterInit /\ [][FilterNext]_vars

----------------------------------------------------------------------------
(* load_datasets on a directory in which each of the five files is present, *)
(* missing or unreadable                                                    *)

\* the table in the file of a source: one row, the source's name in it
FileOf(key) == Table({"source"}, <<[source |-> Val(key)]>>)

FileStates(key) == {FileOf(key), [state |-> "missing"], [state |-> "unreadable"]}

Directories ==
    {f \in [{Sources[i] : i \in 1..Len(Sources)} ->
                UNION {FileStates(Sources[i]) : i \in 1..Len(Sources)}] :
        \A i \in 1..Len(Sources) : f[Sources[i]] \in FileStates(Sources[i])}

LoadInit ==
    /\ args \in {[files |-> f] : f \in Directories}
    /\ datasets = EmptyDict
    /\ sales_df = EmptyFrame
    /\ prev_df = EmptyFrame
    /\ comparison_df = EmptyFrame
    /\ last_call = "none"
    /\ calls = 0
    /\ raised = "none"
    /\ metrics = NoMetrics
    /\ summary = NoMetrics
    /\ warned = 0

\* datasets = load_datasets(data_path)
LoadDatasets ==
    /\ last_call = "none"
    /\ \E out \in {load_datasets(args.files)} :
          /\ datasets' = IF out.raised = "none" THEN out.value ELSE datasets
          /\ raised' = out.raised
    /\ last_call' = "load_datasets"
    /\ UNCHANGED <<sales_df, prev_df, comparison_df, calls, metrics, summary,
                   warned, args>>

LoadNext == LoadDatasets

SpecLoad == LoadInit /\ [][LoadNext]_vars

----------------------------------------------------------------------------
(* calculate_operational_metrics on an orders table of orders of any        *)
(* status, some without a status, and a small sales table                   *)

MaxOrders == 3

OperationStatuses == {Val("delivered"), Val("shipped"), Val("canceled"), NULL}

OperationOrders(n) ==
    {SelectCols(Table({"order_id", "order_status"},
                      [i \in 1..Len(st) |->
                          [order_id |-> Val(i), order_status |-> st[i]]]), cs) :
        st \in SeqsOf(OperationStatuses, 0, n),
        cs \in {{"order_id", "order_status"}, {"order_id"}}}

\* the items of a delivered and of a canceled order, with or without the
\* order_status and price columns
OperationSales ==
    {SelectCols(Table({"order_id", "order_status", "price"},
                      <<[order_id |-> Val(1), order_status |-> Val("delivered"),
                         price |-> Val(50)],
                        [order_id |-> Val(2), order_status |-> Val("canceled"),
                         price |-> Val(100)]>>), cs) :
        cs \in {{"order_id", "order_status", "price"}, {"order_id", "price"},
                {"order_id", "order_status"}}}

OperationsInit ==
    /\ sales_df \in OperationSales
    /\ datasets \in {[order_items |-> EmptyFrame, orders |-> o,
                      products |-> EmptyFrame, customers |-> EmptyFrame,
                      reviews |-> EmptyFrame] : o \in OperationOrders(MaxOrders)}
    /\ prev_df = EmptyFrame
    /\ comparison_df = EmptyFrame
    /\ last_call = "none"
    /\ calls = 0
    /\ raised = "none"
    /\ metrics = NoMetrics
    /\ summary = NoMetrics
    /\ warned = 0
    /\ args = NoArgs

CalculateOperationalMetrics ==
    /\ last_call = "none"
    /\ \E out \in {calculate_operational_metrics(sales_df, datasets.orders)} :
          Result(out, "calculate_operational_metrics")

OperationsNext == CalculateOperationalMetrics

SpecOperations == OperationsInit /\ [][OperationsNext]_vars

----------------------------------------------------------------------------
(* Any loader or metrics function called on the caller's tables: what the   *)
(* caller's tables hold after the call                                      *)

Functions ==
    {"clean_and_prepare_data", "create_sales_dataset",
     "filter_data_by_date_range", "add_product_categories",
     "add_customer_geography", "add_review_data", "calculate_revenue_metrics",
     "calculate_growth_metrics", "calculate_monthly_trends",
     "calculate_product_category_metrics", "calculate_geographic_metrics",
     "calculate_customer_experience_metrics", "calculate_operational_metrics",
     "calculate_cohort_metrics"}

FrameInit ==
    /\ datasets \in {[order_items |-> i, orders |-> o,
                      products |-> Table(ProductCols, <<>>),
                      customers |-> Table(GeoCols, <<>>),
                      reviews |-> r] :
                        i \in ItemTables(1), o \in OrderTables,
                        r \in ReviewTablesOver(ReviewCols, 1)}
    /\ sales_df \in {create_sales_dataset(datasets, "None").value}
    /\ comparison_df = Table(ItemCols, <<>>)
    /\ prev_df = EmptyFrame
    /\ last_call = "none"
    /\ calls = 0
    /\ raised = "none"
    /\ metrics = NoMetrics
    /\ summary = NoMetrics
    /\ warned = 0
    /\ args = NoArgs

\* fn(...) called on datasets, sales_df and comparison_df; args keeps what
\* the tables held when they were passed
CallFunction ==
    /\ last_call = "none"
    /\ \E fn \in Functions :
          \E written \in {written_by(fn)} :
              /\ datasets' =
                     [k \in DOMAIN datasets |->
                         IF k \in written["dict"]
                         THEN Assigned(datasets[k], {"replaced"})
                         ELSE Assigned(datasets[k], written[k])]
              /\ sales_df' = Assigned(sales_df, written["sales"])
              /\ comparison_df' = Assigned(comparison_df, written["comparison"])
              /\ last_call' = fn
    /\ args' = [datasets |-> datasets, sales_df |-> sales_df,
                previous_df |-> comparison_df]
    /\ UNCHANGED <<prev_df, calls, raised, metrics, summary, warned>>

FrameNext == CallFunction

SpecFrame == FrameInit /\ [][FrameNext]_vars

----------------------------------------------------------------------------
(* The dashboard page: main() of dashboard.py, up to the first output it    *)
(* renders                                                                  *)

\* what the page shows when main() ends or dies:
\*   loaded    load_and_process_data returned tables
\*   failed    the metric computation that raised, in the order of the calls
\*   error     the st.error banner shown
\*   rendered  the KPI row and the charts are drawn
\*   raised    an exception that left main()
Page(loaded, failed, error, rendered, exc) ==
    [loaded |-> loaded, failed |-> failed, error |-> error,
     rendered |-> rendered, raised |-> exc]

\* the metric computations of the try block, in source order; an empty
\* comparison period skips the comparison and growth metrics
main_metrics(current_period_df, comparison_period_df, clean_datasets) ==
    <<[name |-> "revenue",
       out |-> calculate_revenue_metrics(current_period_df, "price")],
      [name |-> "comparison",
       out |-> IF len(comparison_period_df) # 0
               THEN calculate_revenue_metrics(comparison_period_df, "price")
               ELSE NoMetrics],
      [name |-> "growth",
       out |-> IF len(comparison_period_df) # 0
               THEN calculate_growth_metrics(current_period_df,
                                             comparison_period_df, "price")
               ELSE NoMetrics],
      [name |-> "customer experience",
       out |-> calculate_customer_experience_metrics(current_period_df,
                                                     clean_datasets.reviews)],
      [name |-> "category",
       out |-> calculate_product_category_metrics(current_period_df,
                                                  clean_datasets.products, "price")],
      [name |-> "geographic",
       out |-> calculate_geographic_metrics(current_period_df,
                   clean_datasets.orders, clean_datasets.customers,
                   "price", "state")]>>

\* the first computation of outs that raised, 0 when none did
first_raised(outs) ==
    IF \A i \in 1..Len(outs) : outs[i].out.raised = "none" THEN 0
    ELSE CHOOSE i \in 1..Len(outs) :
             /\ outs[i].out.raised # "none"
             /\ \A j \in 1..(i - 1) : outs[j].out.raised = "none"

\* lines 792-822: the except branch shows st.error and returns; the monthly
\* trends are computed outside the try
main_after_metrics(outs, failed, trends) ==
    IF failed # 0
    THEN Page(TRUE, outs[failed].name, "Error calculating metrics", FALSE, "none")
    ELSE IF trends.raised # "none"
    THEN Page(TRUE, "none", "none", FALSE, trends.raised)
    ELSE Page(TRUE, "none", "none", TRUE, "none")

\* lines 768-785: the two periods are filtered outside any try
main_after_filter(current, comparison, clean_datasets, selected_year) ==
    IF current.raised # "none"
    THEN Page(TRUE, "none", "none", FALSE, current.raised)
    ELSE IF comparison.raised # "none"
    THEN Page(TRUE, "none", "none", FALSE, comparison.raised)
    ELSE \* filter_data_by_date_range returns a table: a recorded exception
         \* marker is not part of it
         main_after_metrics(
             main_metrics(current.value, comparison.value, clean_datasets),
             first_raised(main_metrics(current.value, comparison.value,
                                       clean_datasets)),
             calculate_monthly_trends(current.value, "order_purchase_timestamp",
                                      "price", selected_year))

\* lines 752-761 and the filtering: selected_month is a cell, NULL for "All"
main_after_load(loaded, clean_datasets, selected_year, selected_month) ==
    IF loaded = NoneValue
    THEN Page(FALSE, "none", "Failed to load data", FALSE, "none")
    ELSE main_after_filter(
             filter_data_by_date_range(loaded, Val(selected_year),
                 Val(selected_year), selected_month, selected_month,
                 "order_purchase_timestamp"),
             filter_data_by_date_range(loaded, Val(selected_year - 1),
                 Val(selected_year - 1), selected_month, selected_month,
                 "order_purchase_timestamp"),
             clean_datasets, selected_year)

\* main() on the files ds with the sidebar selections
main(ds, selected_year, selected_month) ==
    main_after_load(load_and_process_data(ds), ds, selected_year, selected_month)

\* the sidebar: years and months offered
SelectedYears == {2022, 2023}
SelectedMonths == {NULL, Val(1), Val(2)}

\* order_items files with and without a price column
PageItems ==
    {SelectCols(t, cs) : t \in ItemTables(1), cs \in {ItemCols, ItemCols \ {"price"}}}

\* reviews files with and without a review_score column
PageReviews ==
    ReviewTablesOver(ReviewCols, 1)
        \cup ReviewTablesOver(ReviewCols \ {"review_score"}, 1)

PageInit ==
    /\ datasets \in {[order_items |-> i, orders |-> o, products |-> p,
                      customers |-> Table(GeoCols, <<>>), reviews |-> r] :
                        i \in PageItems, o \in OrderTables,
                        p \in {Table(ProductCols, <<>>), Missing},
                        r \in PageReviews}
    /\ sales_df = EmptyFrame
    /\ prev_df = EmptyFrame
    /\ comparison_df = EmptyFrame
    /\ last_call = "none"
    /\ calls = 0
    /\ raised = "none"
    /\ metrics = NoMetrics
    /\ summary = NoMetrics
    /\ warned = 0
    /\ args = NoArgs

\* one run of the page script
Main ==
    /\ last_call = "none"
    /\ \E selected_year \in SelectedYears, selected_month \in SelectedMonths :
          \E page \in {main(datasets, selected_year, selected_month)} :
              /\ summary' = page
              /\ raised' = page.raised
              /\ args' = [selected_year |-> selected_year,
                          selected_month |-> selected_month]
    /\ last_call' = "main"
    /\ UNCHANGED <<datasets, sales_df, prev_df, comparison_df, calls, metrics,
                   warned>>

PageNext == Main

SpecPage == PageInit /\ [][PageNext]_vars

----------------------------------------------------------------------------
(* Claims about the loader *)

EnrichCalls == {"add_product_categories", "add_customer_geography",
                "add_review_data"}

\* output row o carries input row r: it agrees with r on every input column
\* (an input column that collided with a dimension column is found under _x)
Carries(o, r, incols) ==
    \A c \in incols :
        IF c \in DOMAIN o THEN o[c] = r[c] ELSE o[c \o "_x"] = r[c]

\* the output columns that came from the dimension table
DimColsOf(out, incols) ==
    {k \in out.cols : k \notin incols /\ \A c \in incols : k # c \o "_x"}

\* out keeps every row of in: it is not shorter, every input row is carried by
\* some output row, and an input row whose key matches no row of dim is carried
\* by an output row whose dimension columns are all null
PreservesRows(in, dim, out, key) ==
    /\ len(out) >= len(in)
    /\ \A i \in 1..len(in) :
          /\ \E j \in 1..len(out) : Carries(out.rows[j], in.rows[i], in.cols)
          /\ (\A d \in 1..len(dim) : dim.rows[d][key] # in.rows[i][key])
                => \E j \in 1..len(out) :
                      /\ Carries(out.rows[j], in.rows[i], in.cols)
                      /\ \A k \in DimColsOf(out, in.cols) : isna(out.rows[j][k])

\* the dimension table and join key of the merge an enrichment call performed
MergedDim ==
    CASE last_call = "add_product_categories" -> datasets.products
      [] last_call = "add_customer_geography" -> datasets.customers
      [] last_call = "add_review_data" -> datasets.reviews

MergedKey ==
    CASE last_call = "add_product_categories" -> "product_id"
      [] last_call = "add_customer_geography" -> "customer_id"
      [] last_call = "add_review_data" -> "order_id"

\* the call that just returned performed its left-join
DidMerge ==
    /\ last_call \in EnrichCalls
    /\ raised = "none"
    /\ last_call = "add_product_categories" => ProductCols \subseteq datasets.products.cols

\* C3: every left-join of the loader keeps every input row: the output is never
\* shorter than the input, and an input row whose key has no match in the
\* dimension table is in the output with null dimension values (the orders merge
\* of create_sales_dataset, and the merges of the three enrichment functions)
C3_LeftJoinPreservesRows ==
    /\ last_call = "create_sales_dataset"
          => PreservesRows(datasets.order_items, datasets.orders,
                           orders_merge(datasets), "order_id")
    /\ DidMerge => PreservesRows(prev_df, MergedDim, sales_df, MergedKey)

\* an enrichment merge ran on a table with a matched row and an unmatched row
C3_Witness ==
    /\ DidMerge
    /\ calls = 1
    /\ \E i \in 1..len(prev_df) :
          \A d \in 1..len(MergedDim) : MergedDim.rows[d][MergedKey] # prev_df.rows[i][MergedKey]
    /\ \E i \in 1..len(prev_df) :
          \E d \in 1..len(MergedDim) : MergedDim.rows[d][MergedKey] = prev_df.rows[i][MergedKey]
    /\ len(sales_df) > len(prev_df)

\* C5: an enrichment function applied a second time to its own output, with the
\* same dimension table, returns without raising a table with the same columns
\* and the same number of rows as the single call gave
C5_EnrichmentIdempotent ==
    (last_call \in EnrichCalls /\ calls = 2)
        => /\ raised = "none"
           /\ sales_df.cols = prev_df.cols
           /\ len(sales_df) = len(prev_df)

\* the dimension table of the last enrichment call lacks its join key
DimLacksKey == MergedKey \notin MergedDim.cols

\* C6: an enrichment function whose dimension table lacks the join key returns
\* its input unchanged, without raising
C6_MissingKeyReturnsInput ==
    (last_call \in EnrichCalls /\ calls = 1 /\ DimLacksKey)
        => /\ raised = "none"
           /\ sales_df = prev_df

\* the sales table load_and_process_data returned
Loaded == last_call = "load_and_process_data" /\ sales_df # NoneValue

\* the rows of sales that belong to the item of row r
ItemRowsOf(sales, r) ==
    {j \in 1..len(sales) :
        /\ sales.rows[j]["order_id"] = r["order_id"]
        /\ sales.rows[j]["order_item_id"] = r["order_item_id"]}

\* C4: the sales table built by create_sales_dataset and the three enrichments
\* has exactly one row for each retained order item, whatever the dimension
\* tables hold (several reviews of one order included)
C4_OneRowPerOrderItem ==
    Loaded =>
        LET retained == create_sales_dataset(datasets, "delivered").value
        IN  \A i \in 1..len(retained) :
                Cardinality(ItemRowsOf(sales_df, retained.rows[i])) = 1

----------------------------------------------------------------------------
(* Claims about revenue and growth metrics *)

GrowthCalled == last_call = "calculate_growth_metrics"

\* revenue and number of distinct orders of a period, from its rows
Revenue(df) == SumSeq(Values(df, "price"))

Orders(df) == Cardinality({df.rows[i]["order_id"] : i \in 1..len(df)})

\* C7: calculate_growth_metrics returns a growth dictionary, without raising,
\* also when a previous-period value is zero (an empty previous table included)
C7_GrowthNeverRaises == GrowthCalled => raised = "none"

\* C8: with non-zero previous values, revenue_growth_pct is
\* 100 * (current - previous) / previous revenue, revenue_change_absolute is
\* current - previous revenue, and likewise for the order counts
C8_GrowthFormula ==
    (GrowthCalled /\ Revenue(comparison_df) # 0 /\ Orders(comparison_df) # 0)
        => /\ raised = "none"
           /\ metrics.revenue_growth_pct
                  = Fin(100 * (Revenue(sales_df) - Revenue(comparison_df)),
                        Revenue(comparison_df))
           /\ metrics.revenue_change_absolute
                  = Fin(Revenue(sales_df) - Revenue(comparison_df), 1)
           /\ metrics.order_growth_pct
                  = Fin(100 * (Orders(sales_df) - Orders(comparison_df)),
                        Orders(comparison_df))
           /\ metrics.order_change_absolute
                  = Orders(sales_df) - Orders(comparison_df)

\* current revenue 150 against previous revenue 100: 50.0 percent and 50
C8_Witness ==
    /\ GrowthCalled
    /\ Revenue(sales_df) = 150
    /\ Revenue(comparison_df) = 100
    /\ metrics.revenue_growth_pct = Fin(50, 1)
    /\ metrics.revenue_change_absolute = Fin(50, 1)

RevenueCalled == last_call = "calculate_revenue_metrics" /\ raised = "none"

\* the price total of order o
OrderTotal(df, o) ==
    SumSeq(Values(FilterRows(df, LAMBDA r : r["order_id"] = Val(o)), "price"))

\* C9: for a non-empty sales table avg_order_value is the mean of the per-order
\* price sums: avg_order_value * total_orders equals total_revenue
C9_AvgOrderValue ==
    (RevenueCalled /\ len(sales_df) > 0)
        => /\ np_scale(metrics.avg_order_value, metrics.total_orders)
                  = metrics.total_revenue
           /\ metrics.total_revenue = Fin(Revenue(sales_df), 1)
           /\ metrics.total_orders = Orders(sales_df)

\* three orders with totals 10, 20 and 30, one of them of two items: average
\* and median order value 20, total revenue 60
C9_Witness ==
    /\ RevenueCalled
    /\ {OrderTotal(sales_df, o) : o \in RevenueOrderIds} = {10, 20, 30}
    /\ len(sales_df) = 4
    /\ metrics.avg_order_value = Fin(20, 1)
    /\ metrics.median_order_value = Fin(20, 1)
    /\ metrics.total_revenue = Fin(60, 1)
    /\ metrics.avg_item_price = Fin(15, 1)

\* C10: the price percentiles of a non-empty price column are ordered:
\* 25th <= 75th <= 90th <= 95th
C10_PercentilesOrdered ==
    (RevenueCalled /\ len(sales_df) > 0)
        => /\ np_le(metrics.revenue_percentiles.p25, metrics.revenue_percentiles.p75)
           /\ np_le(metrics.revenue_percentiles.p75, metrics.revenue_percentiles.p90)
           /\ np_le(metrics.revenue_percentiles.p90, metrics.revenue_percentiles.p95)

\* a price column, not in ascending order, whose four percentiles all differ
C10_Witness ==
    /\ RevenueCalled
    /\ Values(sales_df, "price") # Sorted(Values(sales_df, "price"))
    /\ ~np_le(metrics.revenue_percentiles.p75, metrics.revenue_percentiles.p25)
    /\ ~np_le(metrics.revenue_percentiles.p90, metrics.revenue_percentiles.p75)
    /\ ~np_le(metrics.revenue_percentiles.p95, metrics.revenue_percentiles.p90)

----------------------------------------------------------------------------
(* Claims about the metrics summary *)

SummaryCalled == last_call = "generate_metrics_summary"

\* what the i-th metric computation does on the tables of this state
OutcomeOf(i) ==
    GroupOutcome(i, sales_df, datasets.products, datasets.orders,
                 datasets.customers, datasets.reviews)

\* group i and every group before it compute without an exception
ComputedBeforeFailure(i) == \A j \in 1..i : OutcomeOf(j).raised = "none"

\* C1: generate_metrics_summary never raises: when a metric computation
\* raises, a warning is issued and the call still returns a dictionary that
\* holds 'period' and every group computed before the failure
C1_SummaryAlwaysReturned ==
    SummaryCalled =>
        /\ raised = "none"
        /\ "period" \in DOMAIN summary
        /\ summary["period"] = "Current Period"
        /\ \A i \in 1..5 :
              ComputedBeforeFailure(i) =>
                  /\ SummaryGroups[i] \in DOMAIN summary
                  /\ summary[SummaryGroups[i]] = OutcomeOf(i).value
        /\ (\E i \in 1..5 : OutcomeOf(i).raised # "none") => warned = 1

\* the geography computation raises after revenue and categories were
\* computed: the summary is returned with those two groups and a warning
C1_Witness ==
    /\ SummaryCalled
    /\ OutcomeOf(3).raised = "KeyError"
    /\ ComputedBeforeFailure(2)
    /\ len(sales_df) = 2
    /\ DOMAIN summary = {"period", "revenue", "categories"}
    /\ summary["categories"] # EmptyResult
    /\ warned = 1

\* C2: a metric group whose own computation succeeds is in the summary
\* whichever other group failed, also when the failing group comes earlier
C2_FailureExcludesOnlyThatGroup ==
    SummaryCalled =>
        \A i \in 1..5 :
            OutcomeOf(i).raised = "none" => SummaryGroups[i] \in DOMAIN summary

----------------------------------------------------------------------------
(* Claims about the monthly trends *)

TrendsCalled == last_call = "calculate_monthly_trends" /\ raised = "none"

\* the (year, month) groups of the sales rows that pass the year filter
TrendGroups ==
    {<<dt_year(r.order_purchase_timestamp[1]),
       dt_month(r.order_purchase_timestamp[1])>> :
        r \in {sales_df.rows[i] :
                  i \in {j \in 1..len(sales_df) :
                            ~isna(sales_df.rows[j].order_purchase_timestamp)}}}
    \cap {g \in (2023..2024) \X (1..12) :
             args.year_filter = 0 \/ g[1] = args.year_filter}

\* row i of the trends table comes later in the calendar than row i - 1
MonthsAscend(i) ==
    \/ metrics[i - 1].year < metrics[i].year
    \/ /\ metrics[i - 1].year = metrics[i].year
       /\ metrics[i - 1].month < metrics[i].month

\* C11: the trends table has one row per (year, month) group, in calendar
\* order; revenue_mom_growth is null in the first row and in every later row
\* it is 100 * (total_revenue[i] - total_revenue[i-1]) / total_revenue[i-1]
\* rounded to 2 decimals
C11_RevenueMomGrowth ==
    TrendsCalled =>
        /\ {<<metrics[i].year, metrics[i].month>> : i \in 1..Len(metrics)}
               = TrendGroups
        /\ Len(metrics) = Cardinality(TrendGroups)
        /\ \A i \in 1..Len(metrics) :
              IF i = 1 THEN metrics[i].revenue_mom_growth = NaN
              ELSE /\ MonthsAscend(i)
                   /\ metrics[i].revenue_mom_growth =
                          round2(np_div(
                              np_scale(np_sub(metrics[i].total_revenue,
                                              metrics[i - 1].total_revenue), 100),
                              metrics[i - 1].total_revenue))

\* monthly revenues 100, 150, 90 (the last month in the next year) give
\* null, 50.0, -40.0
C11_Witness ==
    /\ TrendsCalled
    /\ Len(metrics) = 3
    /\ metrics[3].year = 2024
    /\ [i \in 1..3 |-> metrics[i].total_revenue]
           = <<AsFloat(100), AsFloat(150), AsFloat(90)>>
    /\ [i \in 1..3 |-> metrics[i].revenue_mom_growth]
           = <<NaN, AsFloat(50), AsFloat(-40)>>

----------------------------------------------------------------------------
(* Claims about the category and geographic metrics *)

CategoryCalled ==
    last_call = "calculate_product_category_metrics" /\ raised = "none"

GeographyCalled ==
    last_call = "calculate_geographic_metrics" /\ raised = "none"

\* total_revenue of the returned groups, in row order
ReturnedRevenue == [i \in 1..Len(metrics) |-> metrics[i].total_revenue]

\* the distance of a finite float from 100
OffHundred(x) == Fin(Abs(x.n - 100 * x.d), x.d)

C13_SortedByRevenueDescending ==
    (CategoryCalled \/ GeographyCalled) =>
        \A i \in 1..(Len(metrics) - 1) :
            np_le(metrics[i + 1].total_revenue, metrics[i].total_revenue)

\* SP comes after RJ in key order and before it in the result, having the
\* larger revenue
C13_Witness ==
    /\ GeographyCalled
    /\ Len(metrics) = 2
    /\ metrics[1].key = <<"SP">>
    /\ metrics[2].key = <<"RJ">>
    /\ metrics[1].total_revenue = AsFloat(30)
    /\ metrics[2].total_revenue = AsFloat(10)

\* C14: with a products table that has no product_category_name column,
\* calculate_product_category_metrics prints a warning and returns an empty
\* table instead of raising, and the sales table is as it was passed
C14_NoCategoryColumnGivesEmpty ==
    /\ last_call = "calculate_product_category_metrics"
    /\ "product_category_name" \notin datasets.products.cols
    => /\ raised = "none"
       /\ metrics = EmptyResult
       /\ warned = 1
       /\ sales_df = prev_df

\* the call is made on a sales table that carries categories of its own
C14_Witness ==
    /\ CategoryCalled
    /\ "product_category_name" \notin datasets.products.cols
    /\ "product_category_name" \in sales_df.cols
    /\ \E i \in 1..len(sales_df) : ~isna(sales_df.rows[i].product_category_name)
    /\ metrics = EmptyResult
    /\ warned = 1

\* column c is on the sales table, with a value in at least one row
Carried(c) ==
    /\ c \in sales_df.cols
    /\ \E i \in 1..len(sales_df) : ~isna(sales_df.rows[i][c])

\* C15: when the sales table already carries product_category_name (resp.
\* customer_state and customer_city) with a value in some row, the category
\* (resp. geographic) metrics are computed from it and the result is not
\* empty, whatever columns the products (resp. customers) table has and at
\* every geographic level
C15_ExistingColumnsAreUsed ==
    /\ last_call = "calculate_product_category_metrics"
           /\ Carried("product_category_name")
       => raised = "none" /\ metrics # EmptyResult
    /\ last_call = "calculate_geographic_metrics"
           /\ Carried("customer_state") /\ Carried("customer_city")
       => raised = "none" /\ metrics # EmptyResult

\* the value of column c for sales row r once the dimension table dim is
\* joined on key: the row's own value when the sales table has the column
JoinedCell(r, c, dim, key) ==
    IF c \in sales_df.cols THEN r[c]
    ELSE LET match == {i \in 1..len(dim) : dim.rows[i][key] = r[key]}
         IN  IF match = {} THEN NULL ELSE dim.rows[CHOOSE i \in match : TRUE][c]

\* the sales rows (by position) that have a value in every column of cs
\* after the join
RowsWithAll(cs, dim, key) ==
    {i \in 1..len(sales_df) :
        \A j \in 1..Len(cs) : ~isna(JoinedCell(sales_df.rows[i], cs[j], dim, key))}

\* the sum of price over the sales rows at the positions in S
RECURSIVE PriceOver(_)
PriceOver(S) ==
    IF S = {} THEN 0
    ELSE LET i == CHOOSE i \in S : TRUE
         IN  sales_df.rows[i].price[1] + PriceOver(S \ {i})

\* the returned groups are those of the sales rows at the positions in S,
\* keyed by the joined columns cs, and hold these rows' revenue
GroupsAreOf(S, cs, dim, key) ==
    /\ {metrics[i].key : i \in 1..Len(metrics)} =
           {[j \in 1..Len(cs) |->
                 JoinedCell(sales_df.rows[i], cs[j], dim, key)[1]] : i \in S}
    /\ np_sum(ReturnedRevenue) = AsFloat(PriceOver(S))

\* the sales table has none of the columns the joins add
PlainSales == sales_df.cols \cap EnrichedCols = {}

\* C16: the rows that have no category (resp. no value in a grouping column)
\* after the join are left out of the aggregation: the returned groups are
\* the groups of the other rows and their total_revenue adds up to the price
\* of exactly those rows, for the category metrics and at every geographic
\* level
C16_NullGroupsDropped ==
    /\ last_call = "calculate_product_category_metrics"
           /\ ProductCols \subseteq datasets.products.cols
       => /\ raised = "none"
          /\ GroupsAreOf(RowsWithAll(<<"product_category_name">>,
                                     datasets.products, "product_id"),
                         <<"product_category_name">>,
                         datasets.products, "product_id")
    /\ last_call = "calculate_geographic_metrics"
           /\ \/ PlainSales /\ datasets.customers.cols = GeoCols
              \/ "customer_state" \in sales_df.cols
                     /\ args.geographic_level = "state"
       => /\ raised = "none"
          /\ GroupsAreOf(RowsWithAll(LevelGroupCols(args.geographic_level),
                                     datasets.customers, "customer_id"),
                         LevelGroupCols(args.geographic_level),
                         datasets.customers, "customer_id")

\* city level: the item of customer 4, who is not in the customers table,
\* is in no group; the two other items are
C16_Witness ==
    /\ GeographyCalled
    /\ args.geographic_level = "city"
    /\ PlainSales
    /\ len(datasets.customers) = 3
    /\ [i \in 1..len(sales_df) |-> sales_df.rows[i].customer_id] =
           <<Val(4), Val(1), Val(2)>>
    /\ Len(metrics) = 2
    /\ np_sum(ReturnedRevenue) = AsFloat(20)

\* the columns a geographic level stands for
LevelColumns(geographic_level) ==
    CASE geographic_level = "state" -> <<"customer_state">>
      [] geographic_level = "city" -> <<"customer_state", "customer_city">>
      [] OTHER -> <<"customer_state", "customer_city", "customer_zip_code_prefix">>

\* the sales rows that agree with row i on every column of cs after the join
\* with the customers table
SameGroup(i, cs) ==
    {k \in RowsWithAll(cs, datasets.customers, "customer_id") :
        \A j \in 1..Len(cs) :
            JoinedCell(sales_df.rows[k], cs[j], datasets.customers, "customer_id")
              = JoinedCell(sales_df.rows[i], cs[j], datasets.customers, "customer_id")}

\* C17: calculate_geographic_metrics puts two sales rows in the same group
\* iff they agree on every column of the level (state; state and city; state,
\* city and zip prefix): there is one returned group for each set of rows that
\* agree, holding the revenue of these rows
C17_GroupsByLevelColumns ==
    GeographyCalled /\ PlainSales /\ datasets.customers.cols = GeoCols =>
        LET cs == LevelColumns(args.geographic_level)
            located == RowsWithAll(cs, datasets.customers, "customer_id")
            parts == {SameGroup(i, cs) : i \in located}
        IN  /\ Len(metrics) = Cardinality(parts)
            /\ \A part \in parts :
                  \E i \in 1..Len(metrics) :
                      metrics[i].total_revenue = AsFloat(PriceOver(part))

----------------------------------------------------------------------------
(* Claims about the customer experience metrics *)

\* the score of sales row r: its own, or the one its order has in the
\* reviews table
ScoreOfRow(r) ==
    IF "review_score" \in sales_df.cols THEN r.review_score
    ELSE LET match == {i \in 1..len(datasets.reviews) :
                          datasets.reviews.rows[i].order_id = r.order_id}
         IN  IF match = {} THEN NULL
             ELSE datasets.reviews.rows[CHOOSE i \in match : TRUE].review_score

\* the number of sales rows with both a delivery duration and a review score
PairedRows ==
    IF "delivery_days" \notin sales_df.cols THEN 0
    ELSE Cardinality({i \in 1..len(sales_df) :
                         /\ ~isna(sales_df.rows[i].delivery_days)
                         /\ ~isna(ScoreOfRow(sales_df.rows[i]))})

\* C18: the result of calculate_customer_experience_metrics has the key
\* 'delivery_satisfaction_correlation' iff more than 10 rows have both a
\* delivery_days and a review_score
C18_CorrelationNeedsMoreThanTenPairs ==
    last_call = "calculate_customer_experience_metrics" =>
        /\ raised = "none"
        /\ "delivery_satisfaction_correlation" \in DOMAIN metrics
               <=> PairedRows > 10

\* eleven paired rows out of twelve: the correlation is reported
C18_Witness ==
    /\ last_call = "calculate_customer_experience_metrics"
    /\ len(sales_df) = 12
    /\ PairedRows = 11
    /\ "delivery_satisfaction_correlation" \in DOMAIN metrics

----------------------------------------------------------------------------
(* Claims about the cohort metrics *)

CohortCalled == last_call = "calculate_cohort_metrics" /\ raised = "none"

\* C19: in every retention table calculate_cohort_metrics returns, each
\* cohort row has the value 1.0 at period 0
C19_RetentionAtPeriodZeroIsOne ==
    CohortCalled =>
        \A i \in 1..Len(metrics.index) :
            \E j \in 1..Len(metrics.columns) :
                /\ metrics.columns[j] = 0
                /\ metrics.values[i][j] = AsFloat(1)

\* two cohorts; the customer of the second one comes back eleven months
\* after the first purchase, the customer of the first one does not
C19_Witness ==
    /\ CohortCalled
    /\ len(sales_df) = 3
    /\ Len(metrics.index) = 2
    /\ metrics.columns = <<0, 11>>
    /\ metrics.values = <<<<AsFloat(1), NaN>>, <<AsFloat(1), AsFloat(1)>>>>

----------------------------------------------------------------------------
(* Claims about the delivery speed *)

\* the delivery_days and the delivery_speed_category of the sales rows
DaysOfRows == [i \in 1..len(sales_df) |-> sales_df.rows[i].delivery_days]

SpeedOfRows ==
    [i \in 1..len(sales_df) |-> sales_df.rows[i].delivery_speed_category]

\* C20: every row of the sales table built by create_sales_dataset carries
\* one of the four delivery speed buckets: 'Unknown' exactly when
\* delivery_days is null, '1-3 days' up to 3 days, '4-7 days' from 4 to 7
\* days and '8+ days' above 7
C20_DeliverySpeedBuckets ==
    last_call = "create_sales_dataset" =>
        /\ raised = "none"
        /\ {"delivery_days", "delivery_speed_category"} \subseteq sales_df.cols
        /\ \A i \in 1..len(sales_df) :
              LET days == DaysOfRows[i]
                  speed == SpeedOfRows[i]
              IN  /\ speed \in {Val("Unknown"), Val("1-3 days"), Val("4-7 days"),
                                Val("8+ days")}
                  /\ speed = Val("Unknown") <=> isna(days)
                  /\ speed = Val("1-3 days") <=> ~isna(days) /\ days[1] <= 3
                  /\ speed = Val("4-7 days") <=>
                         ~isna(days) /\ days[1] >= 4 /\ days[1] <= 7
                  /\ speed = Val("8+ days") <=> ~isna(days) /\ days[1] > 7

\* deliveries of 1, 5 and 10 days
C20_Witness ==
    /\ last_call = "create_sales_dataset"
    /\ DaysOfRows = <<Val(1), Val(5), Val(10)>>
    /\ SpeedOfRows = <<Val("1-3 days"), Val("4-7 days"), Val("8+ days")>>

----------------------------------------------------------------------------
(* Claims about the delivery days and the status filter *)

\* the order of the i-th sales row, as a row of the orders table
OrderOfRow(i) ==
    LET hits == SelectSeq(datasets.orders.rows,
                          LAMBDA o : o.order_id = sales_df.rows[i].order_id)
    IN  Head(hits)

\* C21: create_sales_dataset sets delivery_days of every row to the days
\* from order_purchase_timestamp to order_delivered_customer_date, and the
\* delivery computation removes no row: every item of the delivered orders
\* is returned, the ones with negative delivery_days included
C21_DeliveryDaysKeepEveryRow ==
    last_call = "create_sales_dataset" =>
        /\ raised = "none"
        /\ len(sales_df) = len(datasets.order_items)
        /\ \A i \in 1..len(sales_df) :
              /\ sales_df.rows[i].order_id = datasets.order_items.rows[i].order_id
              /\ DaysOfRows[i] =
                     IF isna(OrderOfRow(i).order_delivered_customer_date)
                     THEN NULL
                     ELSE Val(OrderOfRow(i).order_delivered_customer_date[1]
                                 - OrderOfRow(i).order_purchase_timestamp[1])

\* an order delivered the day before its purchase is in the sales table,
\* next to one delivered three days after it
C21_Witness ==
    /\ last_call = "create_sales_dataset"
    /\ DaysOfRows = <<Val(3), Val(-1)>>
    /\ sales_df.rows[2].order_delivered_customer_date = Val(19)
    /\ sales_df.rows[2].order_purchase_timestamp = Val(20)

\* the order_status of order_id cell o in the orders table; null when the
\* table has no such order or no order_status column
StatusOfOrder(o) ==
    LET hits == SelectSeq(datasets.orders.rows, LAMBDA r : r.order_id = o)
    IN  IF hits = <<>> \/ "order_status" \notin datasets.orders.cols THEN NULL
        ELSE Head(hits).order_status

\* the order-item columns of the sales rows
ItemsOfSales ==
    [i \in 1..len(sales_df) |-> [c \in ItemCols |-> sales_df.rows[i][c]]]

\* C22: with an order status filter and an orders table that has
\* order_status, create_sales_dataset returns exactly the order items whose
\* order has that status, every returned row carrying it; with the filter
\* None or without the order_status column no row is removed
C22_StatusFilter ==
    (last_call = "create_sales_dataset" /\ args # NoArgs) =>
        /\ raised = "none"
        /\ IF args.order_status_filter # "None"
                  /\ "order_status" \in datasets.orders.cols
           THEN /\ ItemsOfSales =
                       SelectSeq(datasets.order_items.rows,
                           LAMBDA r : StatusOfOrder(r.order_id)
                                          = Val(args.order_status_filter))
                /\ \A i \in 1..len(sales_df) :
                       sales_df.rows[i].order_status = Val(args.order_status_filter)
           ELSE ItemsOfSales = datasets.order_items.rows

\* the filter 'canceled' keeps the item of the canceled order 2 and removes
\* the item of the delivered order 1
C22_Witness ==
    /\ last_call = "create_sales_dataset"
    /\ args = [order_status_filter |-> "canceled"]
    /\ len(datasets.order_items) = 2
    /\ StatusOfOrder(Val(1)) = Val("delivered")
    /\ len(sales_df) = 1
    /\ sales_df.rows[1].order_id = Val(2)
    /\ sales_df.rows[1].order_status = Val("canceled")

----------------------------------------------------------------------------
(* Claims about the date range filter *)

FilterCalled == last_call = "filter_data_by_date_range"

\* the date of row r satisfies every bound that is supplied, all inclusive,
\* the month bounds on the calendar month alone
WithinBounds(r) ==
    LET date == r["order_purchase_timestamp"]
    IN  /\ isna(args.start_year)
              \/ (~isna(date) /\ dt_year(date[1]) >= args.start_year[1])
        /\ isna(args.end_year)
              \/ (~isna(date) /\ dt_year(date[1]) <= args.end_year[1])
        /\ isna(args.start_month)
              \/ (~isna(date) /\ dt_month(date[1]) >= args.start_month[1])
        /\ isna(args.end_month)
              \/ (~isna(date) /\ dt_month(date[1]) <= args.end_month[1])

\* C23: filter_data_by_date_range on a table with rows keeps exactly the
\* rows whose date satisfies every supplied bound, all bounds inclusive and
\* the month bounds applied to the calendar month independently of the year
\* bounds; a bound given as None imposes no restriction
C23_DateRangeFilter ==
    (FilterCalled /\ "order_purchase_timestamp" \in prev_df.cols
         /\ len(prev_df) > 0) =>
        /\ raised = "none"
        /\ sales_df = Table(prev_df.cols, SelectSeq(prev_df.rows, WithinBounds))

\* start_year=2022, end_year=2023, start_month=8 on a purchase of March 2023
\* and one of August 2022: only the August purchase is kept
C23_Witness ==
    /\ FilterCalled
    /\ args = [start_year |-> Val(2022), end_year |-> Val(2023),
               start_month |-> Val(8), end_month |-> NULL]
    /\ "order_purchase_timestamp" \in prev_df.cols
    /\ Column(prev_df, "order_purchase_timestamp") = <<Val(65), Val(-145)>>
    /\ Column(sales_df, "order_purchase_timestamp") = <<Val(-145)>>

\* C29: filter_data_by_date_range returns a table without raising for every
\* table that has the date column, a table with zero rows included, for
\* which it returns an empty table
C29_FilterNeverRaises ==
    (FilterCalled /\ "order_purchase_timestamp" \in prev_df.cols) =>
        /\ raised = "none"
        /\ len(prev_df) = 0 => len(sales_df) = 0

----------------------------------------------------------------------------
(* Claims about load_datasets *)

\* the sources whose file is present and readable
Readable ==
    {Sources[i] : i \in {j \in 1..Len(Sources) :
                            args.files[Sources[j]] = FileOf(Sources[j])}}

\* C24: load_datasets never raises on a missing or unreadable file: it
\* returns a dictionary whose keys are exactly the sources that loaded, each
\* with the table of its file, also the sources that come after a failed one
C24_LoadToleratesMissingFiles ==
    last_call = "load_datasets" =>
        /\ raised = "none"
        /\ DOMAIN datasets = Readable
        /\ \A k \in Readable : datasets[k] = args.files[k]

\* orders is missing and products is unreadable: the three other sources
\* are loaded
C24_Witness ==
    /\ last_call = "load_datasets"
    /\ args.files["orders"] = [state |-> "missing"]
    /\ args.files["products"] = [state |-> "unreadable"]
    /\ DOMAIN datasets = {"order_items", "customers", "reviews"}

----------------------------------------------------------------------------
(* Claims about the placeholder category *)

\* the catalog gives no category name for the product of sales row r: the
\* category column is absent, or no row of the product has a name in it
NoCategoryName(r) ==
    \/ "product_category_name" \notin datasets.products.cols
    \/ \A j \in 1..len(datasets.products) :
           datasets.products.rows[j].product_id = r.product_id
               => isna(datasets.products.rows[j].product_category_name)

\* C27: after add_product_categories on a products table that has
\* product_id, the call returned and every sales row whose product has no
\* category name carries the placeholder 'Unknown', not null
C27_UnknownPlaceholder ==
    (last_call = "add_product_categories" /\ calls = 1
         /\ "product_id" \in datasets.products.cols) =>
        /\ raised = "none"
        /\ "product_category_name" \in sales_df.cols
        /\ \A i \in 1..len(sales_df) :
              NoCategoryName(sales_df.rows[i])
                  => sales_df.rows[i].product_category_name = Val("Unknown")

----------------------------------------------------------------------------
(* Claims about the operational metrics *)

\* the number of orders whose status is one of S
OrdersWithStatus(S) ==
    Cardinality({i \in 1..len(datasets.orders) :
                    datasets.orders.rows[i].order_status \in S})

\* C28: for a non-empty orders table with an order_status column,
\* fulfillment_rate_pct is 100 times the delivered or shipped orders over
\* all orders and delivery_rate_pct is 100 times the delivered orders over
\* all orders, so that 0 <= delivery_rate_pct <= fulfillment_rate_pct <= 100,
\* also when some orders have no status
C28_OperationalRates ==
    (last_call = "calculate_operational_metrics"
         /\ "order_status" \in datasets.orders.cols
         /\ len(datasets.orders) > 0) =>
        /\ raised = "none"
        /\ metrics.fulfillment_rate_pct =
               Fin(100 * OrdersWithStatus({Val("delivered"), Val("shipped")}),
                   len(datasets.orders))
        /\ metrics.delivery_rate_pct =
               Fin(100 * OrdersWithStatus({Val("delivered")}), len(datasets.orders))
        /\ np_le(AsFloat(0), metrics.delivery_rate_pct)
        /\ np_le(metrics.delivery_rate_pct, metrics.fulfillment_rate_pct)
        /\ np_le(metrics.fulfillment_rate_pct, AsFloat(100))

----------------------------------------------------------------------------
(* Claims about the range of the retention table *)

\* C30: in every retention table calculate_cohort_metrics returns, every
\* period number is at least 0 and every retention value that is not null
\* is greater than 0 and at most 1
C30_RetentionRange ==
    CohortCalled =>
        /\ \A j \in 1..Len(metrics.columns) : metrics.columns[j] >= 0
        /\ \A i \in 1..Len(metrics.index) :
              \A j \in 1..Len(metrics.columns) :
                  metrics.values[i][j] # NaN =>
                      /\ ~np_le(metrics.values[i][j], AsFloat(0))
                      /\ np_le(metrics.values[i][j], AsFloat(1))

\* two customers first buy in January 2023 and one of them buys again in
\* February: half of the cohort is retained in period 1
C30_Witness ==
    /\ CohortCalled
    /\ len(sales_df) = 3
    /\ metrics.columns = <<0, 1>>
    /\ metrics.values = <<<<AsFloat(1), Fin(1, 2)>>>>

----------------------------------------------------------------------------
(* Claims about the tables passed to a function *)

\* C25: after a call of any loader or metrics function every table passed
\* to it, and the datasets dictionary, holds the same columns, rows and
\* values as before the call: derived columns appear only on copies
C25_InputsNotMutated ==
    last_call \in Functions =>
        /\ datasets = args.datasets
        /\ sales_df = args.sales_df
        /\ comparison_df = args.previous_df

\* clean_and_prepare_data on an orders table with a row: the table passed
\* in has no purchase_year column afterwards
C25_Witness ==
    /\ last_call = "clean_and_prepare_data"
    /\ len(datasets.orders) > 0
    /\ "purchase_year" \notin datasets.orders.cols
    /\ len(sales_df) > 0

----------------------------------------------------------------------------
(* Claims about the dashboard page *)

\* C26: main() ends without KPIs and charts only when the load failed; when
\* the load succeeded and a metric computation raised, the page is still
\* rendered, with a warning
C26_MetricFailureDegrades ==
    last_call = "main" =>
        /\ ~summary.rendered => ~summary.loaded
        /\ (summary.loaded /\ summary.failed # "none") =>
               (summary.rendered /\ summary.error # "none")

====
